---- MODULE Spec2Model ----
(***************************************************************************)
(* Connection resilience layer of the data analytics platform:             *)
(*   - DatabaseErrorHandler (error classification and retry),              *)
(*   - ConnectionPool (engines keyed by connection identity, monitor),     *)
(*   - DatabaseConnection (the per-caller facade).                         *)
(* Two specifications share the module: SpecRetry runs execute_with_retry  *)
(* over every handler configuration and every operation behaviour; Spec    *)
(* runs client threads, their facades and the monitor on one pool.         *)
(***************************************************************************)
EXTENDS Integers, Sequences, FiniteSets, TLC

None == "None"

(***************************************************************************)
(* Bounds of the model.                                                    *)
(***************************************************************************)
MaxRetriesBound == 3    \* max_retries ranges over -1 .. MaxRetriesBound
MaxDelay == 2           \* retry_delay ranges over 0 .. MaxDelay (time units)

RECURSIVE Pow2(_)
Pow2(n) == IF n <= 0 THEN 1 ELSE 2 * Pow2(n - 1)

(***************************************************************************)
(* Errors an operation can raise.  cls is the exception class, words the   *)
(* marker substrings its lower-cased str() contains.                       *)
(***************************************************************************)
Markers == {"connection", "timeout", "unique constraint", "foreign key constraint"}

Errors ==
  { [cls |-> "OperationalError",        words |-> {"connection"}],
    [cls |-> "OperationalError",        words |-> {"timeout"}],
    [cls |-> "OperationalError",        words |-> {}],
    [cls |-> "IntegrityError",          words |-> {"unique constraint"}],
    [cls |-> "IntegrityError",          words |-> {"foreign key constraint"}],
    [cls |-> "IntegrityError",          words |-> {}],
    [cls |-> "ProgrammingError",        words |-> {}],
    [cls |-> "SQLAlchemyError",         words |-> {}],
    [cls |-> "Exception",               words |-> {}],
    [cls |-> "DatabaseConnectionError", words |-> {}],
    [cls |-> "QueryExecutionError",     words |-> {}] }

\* last_error before any failure (Python's None)
NoError == [cls |-> "NoneType", words |-> {}]

\* What one invocation of the operation did when it returned normally
Returned == [cls |-> "ok", words |-> {}]

NoDomainError ==
  [cls |-> "NoneType", code |-> None, hint |-> None, cause |-> NoError, serial |-> 0]

\* Classes deriving from sqlalchemy.exc.SQLAlchemyError
SQLAlchemyClasses ==
  {"SQLAlchemyError", "OperationalError", "IntegrityError", "ProgrammingError"}

\* DatabaseErrorHandler.TRANSIENT_ERRORS
TRANSIENT_ERRORS == {"OperationalError"}

\* DatabaseErrorHandler.QUERY_ERRORS
QUERY_ERRORS == {"ProgrammingError", "IntegrityError"}

\* isinstance(e, self.TRANSIENT_ERRORS)
IsTransientMutant(e) == e.cls \in TRANSIENT_ERRORS \cup QUERY_ERRORS
IsTransient(e) == e.cls \in TRANSIENT_ERRORS

(***************************************************************************)
(* handle_error: the domain error built from an error.  serial is the      *)
(* invocation that raised the error (its text is copied into the message). *)
(***************************************************************************)
ConnErr(code, e, serial) ==
  [cls |-> "DatabaseConnectionError", code |-> code, hint |-> "connection",
   cause |-> e, serial |-> serial]

QueryErr(hint, e, serial) ==
  [cls |-> "QueryExecutionError", code |-> None, hint |-> hint,
   cause |-> e, serial |-> serial]

handle_sqlalchemy_error(e, serial) ==
  IF e.cls = "OperationalError" /\ ({"connection", "timeout"} \cap e.words) # {}
    THEN ConnErr("DB_CONNECTION_ERROR", e, serial)
  ELSE IF e.cls = "IntegrityError" /\ "unique constraint" \in e.words
    THEN QueryErr("Unique constraint violation", e, serial)
  ELSE IF e.cls = "IntegrityError" /\ "foreign key constraint" \in e.words
    THEN QueryErr("Foreign key constraint violation", e, serial)
  ELSE IF e.cls = "ProgrammingError"
    THEN QueryErr("SQL syntax error", e, serial)
  ELSE QueryErr("Database error", e, serial)

handle_error(e, serial) ==
  IF e.cls \in SQLAlchemyClasses
    THEN handle_sqlalchemy_error(e, serial)
    ELSE ConnErr("DB_UNKNOWN_ERROR", e, serial)

(***************************************************************************)
(* _log_error: the context written to the log record.  A key is a sequence *)
(* of characters; a context maps keys to values.                           *)
(***************************************************************************)
K_password == <<"p", "a", "s", "s", "w", "o", "r", "d">>
K_API_KEY == <<"A", "P", "I", "_", "K", "E", "Y">>
K_user == <<"u", "s", "e", "r">>
K_query == <<"q", "u", "e", "r", "y">>
K_args == <<"a", "r", "g", "s">>
K_kwargs == <<"k", "w", "a", "r", "g", "s">>
K_attempts == <<"a", "t", "t", "e", "m", "p", "t", "s">>

UpperCase == <<"A", "B", "C", "D", "E", "F", "G", "H", "I", "J", "K", "L", "M",
               "N", "O", "P", "Q", "R", "S", "T", "U", "V", "W", "X", "Y", "Z">>
LowerCase == <<"a", "b", "c", "d", "e", "f", "g", "h", "i", "j", "k", "l", "m",
               "n", "o", "p", "q", "r", "s", "t", "u", "v", "w", "x", "y", "z">>

\* k.lower()
lower(k) ==
  [i \in 1 .. Len(k) |->
     IF \E j \in 1 .. Len(UpperCase) : UpperCase[j] = k[i]
       THEN LowerCase[CHOOSE j \in 1 .. Len(UpperCase) : UpperCase[j] = k[i]]
       ELSE k[i]]

\* ['password', 'token', 'key', 'secret']
SensitiveWords ==
  { <<"p", "a", "s", "s", "w", "o", "r", "d">>,
    <<"t", "o", "k", "e", "n">>,
    <<"k", "e", "y">>,
    <<"s", "e", "c", "r", "e", "t">> }

\* w in k
Contains(w, k) ==
  \E i \in 1 .. Len(k) - Len(w) + 1 : SubSeq(k, i, i + Len(w) - 1) = w

\* any(sensitive in k.lower() for sensitive in [...])
Sensitive(k) == \E w \in SensitiveWords : Contains(w, lower(k))

\* {k: v for k, v in context.items() if not any(...)}
safe_context(context) ==
  [k \in {x \in DOMAIN context : ~Sensitive(x)} |-> context[k]]

\* Values a caller puts into a context or passes as a keyword argument
ContextValues == {"v1", "v2"}

\* A mapping of some of the keys to values
Mappings(keys) == UNION {[D -> ContextValues] : D \in SUBSET keys}

\* Keyword arguments handed to execute_with_retry for the operation
KwargsChoices == Mappings({K_password, K_user})

\* Contexts handed to handle_error by a direct caller (None becomes {})
ContextChoices == Mappings({K_API_KEY, K_query})

\* No log record yet
NoLog == [written |-> FALSE, context |-> << >>]

(***************************************************************************)
(* State of one execute_with_retry call.                                   *)
(***************************************************************************)
VARIABLES
  pool_size,          \* pool.pool_size
  max_overflow,       \* pool.max_overflow
  engines,            \* pool._engines: identity -> engine (0: no entry)
  session_factories,  \* pool._session_factories: identity -> engine bound (0: no entry)
  last_used,          \* pool._last_used: identity -> time since the stamp (-1: no entry)
  connection_ids,     \* pool._connection_ids
  lock,               \* owner of pool._lock ("free": nobody)
  monitor_thread,     \* pool._monitor_thread (None or a monitor)
  monitor_active,     \* pool._monitor_active
  mon,                \* position of each monitor thread object
  disposed,           \* engines on which dispose() was called
  th,                 \* per client thread: operation, position, identity
  last,               \* outcome of the operation that ended last
  facade,             \* per client thread: its DatabaseConnection
  handed,             \* identity -> engines get_engine returned since its last eviction
  createdFor          \* identity -> engines the pool created since its last eviction

pvars == <<pool_size, max_overflow, engines, session_factories, last_used, connection_ids, lock,
           monitor_thread, monitor_active, mon, disposed,
           th, last, facade, handed, createdFor>>

VARIABLES
  GLOBAL_POOL,   \* module variable _GLOBAL_POOL (NoPool or a ConnectionPool object)
  POOL_LOCK,     \* owner of the module lock _POOL_LOCK ("free": nobody)
  gpc,           \* per thread: position in get_global_connection_pool
  gcalls,        \* per thread: calls of get_global_connection_pool begun
  constructed,   \* ConnectionPool objects constructed so far
  started,       \* start_monitoring calls made by get_global_connection_pool
  returned       \* the objects get_global_connection_pool has returned

gvars == <<GLOBAL_POOL, POOL_LOCK, gpc, gcalls, constructed, started, returned>>

VARIABLES
  max_retries,          \* handler.max_retries
  retry_delay,          \* handler.retry_delay
  exponential_backoff,  \* handler.exponential_backoff
  rpc,                  \* position: "loop", "giveup", "returned", "raised"
  attempt,              \* local attempt
  last_error,           \* local last_error
  last_serial,          \* invocation that raised last_error (0: none)
  outcomes,             \* what each invocation of func did, in order
  sleeps,               \* the argument of each time.sleep call, in order
  rresult,              \* value returned or error raised by execute_with_retry
  call_kwargs,          \* kwargs of the execute_with_retry call
  logged                \* extra["context"] of the latest log record

rvars == <<max_retries, retry_delay, exponential_backoff, rpc, attempt,
           last_error, last_serial, outcomes, sleeps, rresult, call_kwargs, logged>>

VARIABLES
  encryption_key,  \* auth_manager._encryption_key (NoKey: None)
  blobs,           \* what the encrypt_credentials calls made so far were given and returned
  aresult          \* the latest call on the authentication manager or the configuration

avars == <<encryption_key, blobs, aresult>>

vars == <<rvars, pvars, gvars, avars>>

SuccessValue == "Success"

RetryInit ==
  /\ max_retries \in -1 .. MaxRetriesBound
  /\ retry_delay \in 0 .. MaxDelay
  /\ exponential_backoff \in BOOLEAN
  /\ rpc = "loop"
  /\ attempt = 0
  /\ last_error = NoError
  /\ last_serial = 0
  /\ outcomes = << >>
  /\ sleeps = << >>
  /\ rresult = [kind |-> "none", value |-> None, error |-> NoDomainError]
  /\ call_kwargs \in KwargsChoices
  /\ logged = NoLog

\* delay = retry_delay, or retry_delay * 2 ** (attempt - 1) with backoff
BackoffDelayMutant(a) == retry_delay
BackoffDelay(a) ==
  IF exponential_backoff THEN retry_delay * Pow2(a - 1) ELSE retry_delay

\* the loop condition: while attempt <= self.max_retries
LoopGuardMutant == attempt < max_retries
LoopGuard == attempt <= max_retries

\* The loop is not entered, or is left by its condition.
RetryLoopExit ==
  /\ UNCHANGED <<pvars, gvars, avars>>
  /\ rpc = "loop"
  /\ ~LoopGuard
  /\ rpc' = "giveup"
  /\ UNCHANGED <<max_retries, retry_delay, exponential_backoff, attempt,
                 last_error, last_serial, outcomes, sleeps, rresult, call_kwargs, logged>>

\* One iteration whose func(*args, **kwargs) returns.
RetryCallReturns ==
  /\ UNCHANGED <<pvars, gvars, avars>>
  /\ rpc = "loop"
  /\ LoopGuard
  /\ outcomes' = Append(outcomes, Returned)
  /\ rresult' = [kind |-> "return", value |-> SuccessValue, error |-> NoDomainError]
  /\ rpc' = "returned"
  /\ UNCHANGED <<max_retries, retry_delay, exponential_backoff, attempt,
                 last_error, last_serial, sleeps, call_kwargs, logged>>

\* One iteration whose func raises e: the except block.
RetryCallRaises(e) ==
  /\ UNCHANGED <<pvars, gvars, avars>>
  /\ rpc = "loop"
  /\ LoopGuard
  /\ outcomes' = Append(outcomes, e)
  /\ last_error' = e
  /\ last_serial' = Len(outcomes) + 1
  /\ IF ~IsTransient(e)
       THEN /\ rpc' = "giveup"
            /\ UNCHANGED <<attempt, sleeps>>
       ELSE /\ attempt' = attempt + 1
            /\ IF attempt + 1 > max_retries
                 THEN /\ rpc' = "giveup"
                      /\ UNCHANGED sleeps
                 ELSE /\ sleeps' = Append(sleeps, BackoffDelay(attempt + 1))
                      /\ rpc' = "loop"
  /\ UNCHANGED <<max_retries, retry_delay, exponential_backoff, rresult, call_kwargs, logged>>

\* context = {"args": args, "kwargs": kwargs, "attempts": attempt}
RetryContext ==
  (K_args :> << >>) @@ (K_kwargs :> call_kwargs) @@ (K_attempts :> attempt)

\* After the loop: handle_error(last_error, ...) and raise.
RetryGiveUp ==
  /\ UNCHANGED <<pvars, gvars, avars>>
  /\ rpc = "giveup"
  /\ rresult' = [kind |-> "raise", value |-> None,
                 error |-> handle_error(last_error, last_serial)]
  /\ logged' = [written |-> TRUE, context |-> safe_context(RetryContext)]
  /\ rpc' = "raised"
  /\ UNCHANGED <<max_retries, retry_delay, exponential_backoff, attempt,
                 last_error, last_serial, outcomes, sleeps, call_kwargs>>

\* handle_error(e, operation, context) called by a client of the handler.
HandleErrorCall(e, context) ==
  /\ UNCHANGED <<pvars, gvars, avars>>
  /\ logged' = [written |-> TRUE, context |-> safe_context(context)]
  /\ UNCHANGED <<max_retries, retry_delay, exponential_backoff, rpc, attempt,
                 last_error, last_serial, outcomes, sleeps, rresult, call_kwargs>>

RetryNext ==
  \/ RetryLoopExit
  \/ RetryCallReturns
  \/ \E e \in Errors : RetryCallRaises(e)
  \/ RetryGiveUp


(***************************************************************************)
(* AuthenticationManager.  A credential descriptor is a mapping of field   *)
(* names to values.                                                        *)
(***************************************************************************)
BASIC_AUTH == "basic"
ENV_AUTH == "environment"
KEYRING_AUTH == "keyring"
SSL_AUTH == "ssl"
IAM_AUTH == "iam"
TOKEN_AUTH == "token"

\* The auth_type values of the descriptors, one of them unsupported
AuthTypes == {BASIC_AUTH, ENV_AUTH, KEYRING_AUTH, SSL_AUTH, IAM_AUTH, TOKEN_AUTH, "kerberos"}

\* The other fields of a descriptor and the value each one holds
FieldValue ==
  [username |-> "alice", password |-> "pw", token |-> "tok", role_arn |-> "arn",
   region |-> "eu", ssl_cert |-> "cert.pem", ssl_key |-> "key.pem"]

\* A descriptor with the fields S and the auth_type at ("": no auth_type)
Descriptor(at, S) ==
  [f \in S \cup (IF at = "" THEN {} ELSE {"auth_type"}) |->
     IF f = "auth_type" THEN at ELSE FieldValue[f]]

Descriptors ==
  {Descriptor(at, S) : at \in AuthTypes \cup {""}, S \in SUBSET DOMAIN FieldValue}

\* What a call on the manager or the configuration did
AuthValue(v) == [kind |-> "value", val |-> v, err |-> "none"]
AuthRaise(e) == [kind |-> "raise", val |-> << >>, err |-> e]

\* connect_args["ssl"][k] = credentials["ssl_" + k], for the fields present
SslFields == [cert |-> "ssl_cert", key |-> "ssl_key", ca |-> "ssl_ca"]

ssl_block(credentials) ==
  [k \in {x \in DOMAIN SslFields : SslFields[x] \in DOMAIN credentials} |->
     credentials[SslFields[k]]]

\* get_auth_params(credentials)
get_auth_params(credentials) ==
  IF "auth_type" \notin DOMAIN credentials
    THEN AuthRaise("DatabaseConnectionError")
  ELSE LET auth_type == credentials["auth_type"]
       IN  IF auth_type \in {BASIC_AUTH, ENV_AUTH, KEYRING_AUTH}
             THEN IF "username" \notin DOMAIN credentials \/ "password" \notin DOMAIN credentials
                    THEN AuthRaise("DatabaseConnectionError")
                    ELSE AuthValue([username |-> credentials["username"],
                                    password |-> credentials["password"]])
           ELSE IF auth_type = SSL_AUTH
             THEN LET connect_args == [ssl |-> ssl_block(credentials)]
                  IN  IF "username" \in DOMAIN credentials /\ "password" \in DOMAIN credentials
                        THEN AuthValue([username |-> credentials["username"],
                                        password |-> credentials["password"],
                                        connect_args |-> connect_args])
                        ELSE AuthValue([connect_args |-> connect_args])
           ELSE IF auth_type = TOKEN_AUTH
             THEN IF "token" \notin DOMAIN credentials
                    THEN AuthRaise("DatabaseConnectionError")
                    ELSE AuthValue([password |-> credentials["token"]])
           ELSE IF auth_type = IAM_AUTH
             THEN IF "role_arn" \notin DOMAIN credentials \/ "region" \notin DOMAIN credentials
                    THEN AuthRaise("DatabaseConnectionError")
                    ELSE AuthValue([aws_role_arn |-> credentials["role_arn"],
                                    aws_region |-> credentials["region"]])
           ELSE AuthRaise("DatabaseConnectionError")

\* self._encryption_key = None
NoKey == "None"

\* Valid Fernet keys: the ones callers supply and the ones the manager derives
Keys == {"k1", "k2"}

\* The order in which the fields of a descriptor were inserted
FieldOrder ==
  <<"auth_type", "username", "password", "token", "role_arn", "region", "ssl_cert", "ssl_key">>

\* str(credentials): the items of the mapping, one after the other
RECURSIVE ItemsOf(_, _)
ItemsOf(credentials, fields) ==
  IF fields = << >> THEN << >>
  ELSE (IF Head(fields) \in DOMAIN credentials
          THEN << <<Head(fields), credentials[Head(fields)]>> >> ELSE << >>)
       \o ItemsOf(credentials, Tail(fields))

str_of(credentials) == ItemsOf(credentials, FieldOrder)

\* eval(text): the mapping the text denotes
eval_of(text) ==
  [f \in {text[i][1] : i \in 1 .. Len(text)} |->
     text[CHOOSE i \in 1 .. Len(text) : text[i][1] = f][2]]

\* base64.urlsafe_b64encode / urlsafe_b64decode
b64encode(x) == [b64 |-> x]
b64decode(y) == y.b64

\* Fernet(key).encrypt(text): a token only the same key opens (its random
\* IV and its timestamp play no part in what decrypt returns)
fernet_encrypt(key, text) == [key |-> key, text |-> text]

\* Fernet(key).decrypt(token): the text, or InvalidToken
fernet_decrypt(key, token) ==
  IF token.key = key THEN AuthValue(token.text) ELSE AuthRaise("InvalidToken")

\* if not self._encryption_key
KeyMissingMutant == TRUE
KeyMissing == encryption_key = NoKey

\* The key encrypt_credentials leaves in self._encryption_key; fresh is the
\* key the derivation from os.urandom would give
CachedKeyAfter(key, fresh) ==
  IF key = NoKey /\ KeyMissing THEN fresh ELSE encryption_key

\* encrypt_credentials(credentials, key), key = NoKey standing for no key
encrypt_credentials(credentials, key, fresh) ==
  LET k == IF key = NoKey THEN CachedKeyAfter(key, fresh) ELSE key
  IN  b64encode(fernet_encrypt(k, str_of(credentials)))

\* decrypt_credentials(encrypted_credentials, key)
decrypt_credentials(encrypted_credentials, key) ==
  LET decrypted == fernet_decrypt(key, b64decode(encrypted_credentials))
  IN  IF decrypted.kind = "raise" THEN AuthRaise("DatabaseConnectionError")
      ELSE AuthValue(eval_of(decrypted.val))

\* The descriptors handed to encrypt_credentials
CredentialChoices ==
  { Descriptor(BASIC_AUTH, {"username", "password"}),
    Descriptor(TOKEN_AUTH, {"token"}),
    Descriptor(SSL_AUTH, {"ssl_cert", "ssl_key"}) }

MaxBlobs == 2   \* encrypt_credentials results kept

NoCall == [op |-> "none", arg |-> << >>, out |-> AuthValue(<< >>)]

\* AuthenticationManager.__init__
AuthInit ==
  /\ encryption_key = NoKey
  /\ blobs = {}
  /\ aresult = NoCall

(***************************************************************************)
(* DatabaseConfig.get_connection_string.  A connection string is the       *)
(* sequence of the pieces the f-string puts one after the other; a number  *)
(* is formatted as its decimal digits.                                     *)
(***************************************************************************)
POSTGRES == "postgresql"
MYSQL == "mysql"
SQLITE == "sqlite"
MSSQL == "mssql"
ORACLE == "oracle"

Digits == <<"0", "1", "2", "3", "4", "5", "6", "7", "8", "9">>

\* f"{n}" of an integer n >= 0
RECURSIVE Decimal(_)
Decimal(n) ==
  IF n < 10 THEN <<Digits[n + 1]>> ELSE Decimal(n \div 10) \o <<Digits[(n % 10) + 1]>>

\* port or <default>: the port when one is given (0 stands for None)
PortOrMutant(port, default) == port
PortOr(port, default) == IF port = 0 THEN default ELSE port

\* not all([username, password, host, database]): None or "" among them
MissingParameters(a) ==
  \E v \in {a.username, a.password, a.host, a.database} : v \in {None, ""}

\* f"{scheme}://{username}:{password}@{host}:{port or default}/{database}"
NetworkedString(scheme, a, default) ==
  <<scheme, a.username, ":", a.password, "@", a.host, ":">>
    \o Decimal(PortOr(a.port, default)) \o <<"/", a.database>>

\* get_connection_string(db_type, username, password, host, port, database)
get_connection_string(a) ==
  IF a.db_type = SQLITE THEN AuthValue(<<"sqlite:///", a.database>>)
  ELSE IF a.db_type = POSTGRES
    THEN IF MissingParameters(a) THEN AuthRaise("ValueError")
         ELSE AuthValue(NetworkedString("postgresql://", a, 5432))
  ELSE IF a.db_type = MYSQL
    THEN IF MissingParameters(a) THEN AuthRaise("ValueError")
         ELSE AuthValue(NetworkedString("mysql+pymysql://", a, 3306))
  ELSE IF a.db_type = MSSQL
    THEN IF MissingParameters(a) THEN AuthRaise("ValueError")
         ELSE AuthValue(NetworkedString("mssql+pyodbc://", a, 1433)
                          \o <<"?driver=ODBC+Driver+17+for+SQL+Server">>)
  ELSE IF a.db_type = ORACLE
    THEN IF MissingParameters(a) THEN AuthRaise("ValueError")
         ELSE AuthValue(NetworkedString("oracle+cx_oracle://", a, 1521))
  ELSE AuthRaise("ValueError")

\* The arguments of the calls: every supported type and one that is not;
\* each text given, empty or None; a port given or not
ConnectionArguments ==
  [db_type : {POSTGRES, MYSQL, SQLITE, MSSQL, ORACLE, "db2"},
   username : {None, "", "alice"},
   password : {None, "", "pw"},
   host : {None, "", "dbhost"},
   port : {0, 6000},
   database : {"", "analytics"}]

\* A call of get_connection_string
GetConnectionString(a) ==
  /\ UNCHANGED <<rvars, pvars, gvars>>
  /\ aresult' = [op |-> "get_connection_string", arg |-> a, out |-> get_connection_string(a)]
  /\ UNCHANGED <<encryption_key, blobs>>

\* A call of encrypt_credentials(credentials, key)
EncryptCredentials(credentials, key, fresh) ==
  /\ UNCHANGED <<rvars, pvars, gvars>>
  /\ Cardinality(blobs) < MaxBlobs
  /\ LET blob == encrypt_credentials(credentials, key, fresh)
     IN  /\ blobs' = blobs \cup {[d |-> credentials, key |-> key, blob |-> blob]}
         /\ aresult' = [op |-> "encrypt_credentials", arg |-> credentials,
                        out |-> AuthValue(blob)]
  /\ encryption_key' = CachedKeyAfter(key, fresh)

\* A call of decrypt_credentials(blob, key) on a blob made earlier
DecryptCredentials(blob, key) ==
  /\ UNCHANGED <<rvars, pvars, gvars>>
  /\ blob \in {x.blob : x \in blobs}
  /\ aresult' = [op |-> "decrypt_credentials", arg |-> [blob |-> blob, key |-> key],
                 out |-> decrypt_credentials(blob, key)]
  /\ UNCHANGED <<encryption_key, blobs>>

\* A call of get_auth_params(credentials)
GetAuthParams(credentials) ==
  /\ UNCHANGED <<rvars, pvars, gvars>>
  /\ aresult' = [op |-> "get_auth_params", arg |-> credentials,
                 out |-> get_auth_params(credentials)]
  /\ UNCHANGED <<encryption_key, blobs>>

(***************************************************************************)
(* ConnectionPool and DatabaseConnection.                                  *)
(***************************************************************************)
MaxPoolSize == 1     \* pool_size ranges over 1 .. MaxPoolSize
MaxOverflowBound == 1 \* max_overflow ranges over 0 .. MaxOverflowBound
PoolRecycle == 1     \* pool_recycle, in clock ticks
MaxEngines == 3      \* engine objects referenced at one time: 1 .. MaxEngines

Threads == {"t1", "t2"}       \* client threads, each owning one facade
\* The thread whose facade receives every operation; the facade of the other
\* thread is connected and disconnected only
Callers == {"t1"}
Monitors == {"m1", "m2"}      \* thread objects start_monitoring can create

\* Keyword arguments of a pool call: an ordered mapping, a sequence of
\* <<key, value>> pairs in the order the caller wrote them.
KwNone == << >>
KwArgs == << <<1, 1>> >>

\* str(kwargs): the rendering lists the items in insertion order
RECURSIVE StrOf(_)
StrOf(kw) == IF kw = << >> THEN << >> ELSE <<Head(kw)[1], Head(kw)[2]>> \o StrOf(Tail(kw))

\* hash(...) of the rendering, a polynomial hash kept in 16 bits
HashMod == 65521
RECURSIVE Hash(_)
Hash(str) ==
  IF str = << >> THEN 7 ELSE (31 * Hash(SubSeq(str, 1, Len(str) - 1)) + str[Len(str)]) % HashMod

\* conn_id = f"{connection_string}:{hash(str(kwargs))}"
ConnIdMutant(cs, kw) == <<cs, Hash(StrOf(KwNone))>>
ConnId(cs, kw) == <<cs, Hash(StrOf(kw))>>

\* The (connection_string, kwargs) pairs the clients use
CallArgs ==
  { [cs |-> "A", kw |-> KwNone], [cs |-> "A", kw |-> KwArgs], [cs |-> "B", kw |-> KwNone] }

ConnIds == { ConnId(a.cs, a.kw) : a \in CallArgs }
NoId == <<"", 0>>

\* connect() lines 149-156: the facade of every thread calls the pool with
\* the same string and the one keyword connect_args=self._connect_args
FacadeArgs(t) == [cs |-> "A", kw |-> KwArgs]

\* connect() line 157: the facade's own connection id is built from the
\* rendering of connect_args itself (an empty mapping)
FacadeConnId(t) == ConnId(FacadeArgs(t).cs, KwNone)

Handles == 1 .. MaxEngines

Idle == [op |-> "none", pc |-> "idle", id |-> NoId, att |-> 0]
NoRet == [op |-> "none", kind |-> "none", val |-> 0, err |-> "none", att |-> 0]
Pending(op) == [op |-> op, kind |-> "pending", val |-> 0, err |-> "none", att |-> 0]

\* outcome r of thread t as the latest outcome
Stamp(t, r) == [op |-> r.op, kind |-> r.kind, val |-> r.val, err |-> r.err, att |-> r.att]

Value(op, v) == [op |-> op, kind |-> "value", val |-> v, err |-> "none", att |-> 0]
Flag(op, b) == [op |-> op, kind |-> IF b THEN "true" ELSE "false", val |-> 0, err |-> "none",
               att |-> 0]
Raise(op, e) == [op |-> op, kind |-> "raise", val |-> 0, err |-> e, att |-> 0]

\* The pool maps as one value
Pool == [e |-> engines, sf |-> session_factories, lu |-> last_used,
         ids |-> connection_ids, disp |-> disposed, h |-> handed, c |-> createdFor]

SetPool(P) ==
  /\ engines' = P.e
  /\ session_factories' = P.sf
  /\ last_used' = P.lu
  /\ connection_ids' = P.ids
  /\ disposed' = P.disp
  /\ handed' = P.h
  /\ createdFor' = P.c

Pooled(P) == { id \in ConnIds : P.e[id] # 0 }

\* Engine objects some variable still refers to; a new engine is an object
\* nothing refers to (the lowest-numbered one).
Referenced ==
  ( { engines[id] : id \in ConnIds } \cup { session_factories[id] : id \in ConnIds }
    \cup { facade[t].engine : t \in Threads }
    \cup { facade[t].session_factory : t \in Threads }
    \cup UNION { handed[id] : id \in ConnIds }
    \cup UNION { createdFor[id] : id \in ConnIds }
    \cup { last.val } ) \ {0}

HasFreeEngine == Handles \ Referenced # {}
NewEngine == CHOOSE e \in Handles \ Referenced : \A x \in Handles \ Referenced : e <= x

\* ConnectionPool.__init__ lines 56-58: no monitor thread; S is the set of
\* thread objects that start_monitoring can create later
MonitorInit(S) ==
  /\ monitor_thread = None
  /\ monitor_active = FALSE
  /\ mon = [m \in S |-> "dead"]

\* get_global_connection_pool() lines 33-36: the pool was constructed and
\* start_monitoring() has started its monitor thread
GlobalMonitorInit ==
  /\ monitor_thread = "m1"
  /\ monitor_active = TRUE
  /\ mon = [m \in {"m1"} |-> "test"]

\* _GLOBAL_POOL is None; the ConnectionPool objects are numbered from 1
NoPool == 0

\* connection.py lines 18-20: _GLOBAL_POOL = None, _POOL_LOCK = Lock()
GlobalInit ==
  /\ GLOBAL_POOL = NoPool
  /\ POOL_LOCK = "free"
  /\ gpc = [t \in Threads |-> "idle"]
  /\ gcalls = [t \in Threads |-> 0]
  /\ constructed = 0
  /\ started = 0
  /\ returned = {}

\* How a DatabaseConnection is constructed: with a connection string, or
\* with a db_type and components that are complete ("components"), that lack
\* a required field or name an unsupported type ("missing_field"), or whose
\* auth_credentials have an invalid format ("bad_credentials")
Configs == {"string", "components", "missing_field", "bad_credentials"}

\* DatabaseConnection.__init__ lines 79-93
NewFacade(u, c) ==
  [use_pool |-> u, config |-> c,
   connection_string |-> IF c = "string" THEN "A" ELSE None,
   engine |-> 0, session_factory |-> 0, is_connected |-> FALSE, connection_id |-> NoId]

\* connect() lines 110-143: what resolving the connection string does:
\* "ok", "config_error" (the ValueError of get_connection_string) or
\* "bad_credentials" (the DatabaseConnectionError of get_auth_params)
Resolve(fac) ==
  IF fac.connection_string # None THEN "ok"
  ELSE IF fac.config = "bad_credentials" THEN "bad_credentials"
  ELSE IF fac.config = "missing_field" THEN "config_error"
  ELSE "ok"

\* connect() lines 110-143 once the string is resolved
Resolved(fac) == [fac EXCEPT !.connection_string = "A"]

\* ConnectionPool.__init__ and DatabaseConnection.__init__
PoolInit ==
  /\ pool_size \in 1 .. MaxPoolSize
  /\ max_overflow \in 0 .. MaxOverflowBound
  /\ engines = [id \in ConnIds |-> 0]
  /\ session_factories = [id \in ConnIds |-> 0]
  /\ last_used = [id \in ConnIds |-> -1]
  /\ connection_ids = {}
  /\ lock = "free"
  /\ disposed = {}
  /\ th = [t \in Threads |-> Idle]
  /\ last = Stamp("t1", NoRet)
  /\ facade \in [Threads -> { NewFacade(u, c) : u \in BOOLEAN, c \in Configs }]
  /\ handed = [id \in ConnIds |-> {}]
  /\ createdFor = [id \in ConnIds |-> {}]
  /\ GlobalInit
  /\ AuthInit

\* _remove_connection(conn_id)
remove_connection(P, id) ==
  [P EXCEPT !.disp = IF P.e[id] # 0 THEN P.disp \cup {P.e[id]} ELSE P.disp,
            !.e[id] = 0,
            !.sf[id] = 0,
            !.lu[id] = -1,
            !.ids = P.ids \ {id},
            !.h[id] = {},
            !.c[id] = {}]

\* a sweep that stops at the first entry it removes
remove_allMutant(P, S) ==
  IF S = {} THEN P ELSE remove_connection(P, CHOOSE x \in S : TRUE)
RECURSIVE remove_all(_, _)
remove_all(P, S) ==
  IF S = {} THEN P
  ELSE LET id == CHOOSE x \in S : TRUE IN remove_all(remove_connection(P, id), S \ {id})

\* get_engine: "if len(self._engines) >= self.pool_size + self.max_overflow"
AtCapacityMutant(P) == Cardinality(Pooled(P)) > pool_size + max_overflow
AtCapacity(P) == Cardinality(Pooled(P)) >= pool_size + max_overflow

\* the pool lock can be taken by a thread that does not hold it
LockFreeMutant == TRUE
LockFree == lock = "free"

\* get_engine with the capacity check made before the lookup
get_engine_lookupMutant(P, id) ==
  IF AtCapacity(P)
    THEN [P |-> P, res |-> "full", val |-> 0]
  ELSE IF P.e[id] # 0
    THEN [P |-> [P EXCEPT !.lu[id] = 0, !.h[id] = @ \cup {P.e[id]}],
          res |-> "hit", val |-> P.e[id]]
  ELSE [P |-> P, res |-> "create", val |-> 0]

\* get_engine up to the creation of a new engine (lines 150-158): the pool
\* after the lookup and what the call does: "hit", "full" or "create".
get_engine_lookup(P, id) ==
  IF P.e[id] # 0
    THEN [P |-> [P EXCEPT !.lu[id] = 0, !.h[id] = @ \cup {P.e[id]}],
          res |-> "hit", val |-> P.e[id]]
  ELSE IF AtCapacity(P)
    THEN [P |-> P, res |-> "full", val |-> 0]
  ELSE [P |-> P, res |-> "create", val |-> 0]

\* get_engine lines 177-182: store the engine that was created and probed
get_engine_store(P, id, e) ==
  [P EXCEPT !.e[id] = e, !.ids = @ \cup {id}, !.lu[id] = 0, !.disp = @ \ {e},
            !.h[id] = @ \cup {e}, !.c[id] = @ \cup {e}]

\* get_session_factory lines 211-218, once get_engine returned engine e
session_factory_store(P, id, e) ==
  [P EXCEPT !.sf[id] = e, !.lu[id] = 0]

(***************************************************************************)
(* What a client thread does when a pool call made by connect() ends.      *)
(* connect() catches SQLAlchemyError only: an error raised by the pool     *)
(* (DatabaseConnectionError, or an error the pool did not catch) leaves    *)
(* connect() without passing through its except block.                     *)
(***************************************************************************)
\* connect() returned True inside operation op
ConnectReturned(op, fac) ==
  IF op = "connect"
    THEN [th |-> Idle, fac |-> fac, ret |-> Flag("connect", TRUE)]
  ELSE \* get_session lines 226-229
    IF fac.session_factory = 0
      THEN [th |-> Idle, fac |-> fac, ret |-> Raise("get_session", "no_connection")]
      ELSE [th |-> Idle, fac |-> fac, ret |-> Value("get_session", fac.session_factory)]

\* connect() left by an exception that is not an SQLAlchemyError
ConnectRaised(op, fac, err) == [th |-> Idle, fac |-> fac, ret |-> Raise(op, err)]

\* pool.get_engine(...) ended with result r (kind, val, err) for thread t
AfterGetEngine(t, op, id, r) ==
  IF op = "get_engine"
    THEN [th |-> Idle, fac |-> facade[t],
          ret |-> [op |-> "get_engine", kind |-> r.kind, val |-> r.val, err |-> r.err,
                  att |-> 0]]
  ELSE IF r.kind = "raise"
    THEN ConnectRaised(op, facade[t], r.err)
  ELSE \* connect line 149: self._engine = ...; next is get_session_factory
    [th |-> [op |-> op, pc |-> "connect_gsf", id |-> id, att |-> 0],
     fac |-> [facade[t] EXCEPT !.engine = r.val],
     ret |-> Pending(op)]

\* pool.get_session_factory(...) ended with result r for thread t
AfterGetSessionFactory(t, op, id, r) ==
  IF op = "get_session_factory"
    THEN [th |-> Idle, fac |-> facade[t],
          ret |-> [op |-> "get_session_factory", kind |-> r.kind, val |-> r.val, err |-> r.err,
                  att |-> 0]]
  ELSE IF r.kind = "raise"
    THEN ConnectRaised(op, facade[t], r.err)
  ELSE \* connect lines 153-175
    ConnectReturned(op,
                    [facade[t] EXCEPT !.session_factory = r.val,
                                      !.connection_id = FacadeConnId(t),
                                      !.is_connected = TRUE])

Apply(t, out) ==
  /\ th' = [th EXCEPT ![t] = out.th]
  /\ facade' = [facade EXCEPT ![t] = IF out.ret.op \in {"connect", "get_session"}
                                       THEN Resolved(out.fac) ELSE out.fac]
  /\ last' = Stamp(t, out.ret)

Ok(v) == [kind |-> "value", val |-> v, err |-> "none"]
Err(e) == [kind |-> "raise", val |-> 0, err |-> e]

\* connect() lines 105-108 lets the call go on to the engine
ConnectProceedsMutant(t) == TRUE
ConnectProceeds(t) == ~(facade[t].is_connected /\ facade[t].engine # 0)

\* get_session() lines 221-224 calls connect()
GetSessionConnectsMutant(t) == FALSE
GetSessionConnects(t) == ~facade[t].is_connected

\* Which operation may start a pool call on thread t
StartsPoolCall(t, op) ==
  /\ th[t] = Idle
  /\ \/ op \in {"get_engine", "get_session_factory"}
     \/ /\ op = "connect"
        /\ facade[t].use_pool /\ ConnectProceeds(t) /\ Resolve(facade[t]) = "ok"
     \/ /\ op = "get_session"
        /\ facade[t].use_pool /\ GetSessionConnects(t) /\ ConnectProceeds(t)
        /\ Resolve(facade[t]) = "ok"

FacadeOps == {"connect", "get_session"}

\* The outcome of a call that has made n attempts to create an engine
WithAttempts(out, n) ==
  [out EXCEPT !.ret.att = n, !.th.att = IF out.th.pc = "idle" THEN 0 ELSE n]

(***************************************************************************)
(* ConnectionPool.get_engine                                               *)
(***************************************************************************)
\* Lines 147-158: take the lock, look the identity up, check the capacity.
\* Called directly or by connect() (itself called directly or by
\* get_session()).
GetEngineCall(t, op, a) ==
  /\ UNCHANGED <<rvars, gvars, avars>>
  /\ op \in {"get_engine", "connect", "get_session"}
  /\ StartsPoolCall(t, op)
  /\ op \in FacadeOps => a = FacadeArgs(t)
  /\ LockFree
  /\ LET id == ConnId(a.cs, a.kw)
         L == get_engine_lookup(Pool, id)
     IN  /\ IF L.res = "create"
              THEN /\ lock' = t
                   /\ th' = [th EXCEPT ![t] = [op |-> op, pc |-> "ge_create", id |-> id, att |-> 0]]
                   /\ last' = Stamp(t, Pending(th'[t].op))
                   /\ facade' = IF op \in FacadeOps
                                  THEN [facade EXCEPT ![t] = Resolved(@)] ELSE facade
                   /\ UNCHANGED <<engines, session_factories, last_used, connection_ids,
                                  disposed, handed, createdFor>>
              ELSE /\ SetPool(L.P)
                   /\ Apply(t, AfterGetEngine(t, op, id,
                                 IF L.res = "hit" THEN Ok(L.val) ELSE Err("pool_full")))
                   /\ UNCHANGED lock
  /\ UNCHANGED <<pool_size, max_overflow, monitor_thread, monitor_active, mon>>

\* Lines 160-186, under the lock: create_engine, the probe, the insertion.
GetEngineCreate(t, outcome) ==
  /\ UNCHANGED <<rvars, gvars, avars>>
  /\ th[t].pc = "ge_create"
  /\ outcome \in {"ok", "sa_error", "raw_error"}
  /\ outcome = "ok" => HasFreeEngine
  /\ LET id == th[t].id
         op == th[t].op
     IN  /\ IF outcome = "ok"
              THEN /\ SetPool(get_engine_store(Pool, id, NewEngine))
                   /\ Apply(t, WithAttempts(AfterGetEngine(t, op, id, Ok(NewEngine)), 1))
              ELSE /\ Apply(t, WithAttempts(AfterGetEngine(t, op, id,
                                 Err(IF outcome = "sa_error" THEN "create_failed" ELSE "raw")), 1))
                   /\ UNCHANGED <<engines, session_factories, last_used, connection_ids,
                                  disposed, handed, createdFor>>
  /\ lock' = "free"
  /\ UNCHANGED <<pool_size, max_overflow, monitor_thread, monitor_active, mon>>

(***************************************************************************)
(* ConnectionPool.get_session_factory                                      *)
(***************************************************************************)
\* Lines 199-218 up to the creation of an engine by the nested get_engine.
GetSessionFactoryCall(t, op, a) ==
  /\ UNCHANGED <<rvars, gvars, avars>>
  /\ \/ op = "get_session_factory" /\ th[t] = Idle
     \/ op \in FacadeOps /\ th[t].pc = "connect_gsf" /\ th[t].op = op /\ a = FacadeArgs(t)
  /\ LockFree
  /\ LET id == ConnId(a.cs, a.kw)
         P == Pool
         L == get_engine_lookup(P, id)
     IN  IF P.sf[id] # 0
           THEN /\ SetPool([P EXCEPT !.lu[id] = 0])
                /\ Apply(t, WithAttempts(AfterGetSessionFactory(t, op, id, Ok(P.sf[id])), th[t].att))
                /\ UNCHANGED lock
         ELSE IF L.res = "create"
           THEN /\ lock' = t
                /\ th' = [th EXCEPT ![t] = [op |-> op, pc |-> "gsf_create", id |-> id, att |-> th[t].att]]
                /\ last' = Stamp(t, Pending(op))
                /\ UNCHANGED <<engines, session_factories, last_used, connection_ids,
                               disposed, handed, createdFor, facade>>
         ELSE IF L.res = "hit"
           THEN /\ SetPool(session_factory_store(L.P, id, L.val))
                /\ Apply(t, WithAttempts(AfterGetSessionFactory(t, op, id, Ok(L.val)), th[t].att))
                /\ UNCHANGED lock
         ELSE /\ Apply(t, WithAttempts(AfterGetSessionFactory(t, op, id, Err("pool_full")), th[t].att))
              /\ UNCHANGED <<engines, session_factories, last_used, connection_ids,
                             disposed, handed, createdFor, lock>>
  /\ UNCHANGED <<pool_size, max_overflow, monitor_thread, monitor_active, mon>>

\* The nested get_engine creates the engine (lines 160-186), then lines 211-218.
GetSessionFactoryCreate(t, outcome) ==
  /\ UNCHANGED <<rvars, gvars, avars>>
  /\ th[t].pc = "gsf_create"
  /\ outcome \in {"ok", "sa_error", "raw_error"}
  /\ outcome = "ok" => HasFreeEngine
  /\ LET id == th[t].id
         op == th[t].op
     IN  /\ IF outcome = "ok"
              THEN /\ SetPool(session_factory_store(
                                 get_engine_store(Pool, id, NewEngine), id, NewEngine))
                   /\ Apply(t, WithAttempts(AfterGetSessionFactory(t, op, id, Ok(NewEngine)), th[t].att + 1))
              ELSE /\ Apply(t, WithAttempts(AfterGetSessionFactory(t, op, id,
                                 Err(IF outcome = "sa_error" THEN "create_failed" ELSE "raw")), th[t].att + 1))
                   /\ UNCHANGED <<engines, session_factories, last_used, connection_ids,
                                  disposed, handed, createdFor>>
  /\ lock' = "free"
  /\ UNCHANGED <<pool_size, max_overflow, monitor_thread, monitor_active, mon>>

(***************************************************************************)
(* DatabaseConnection                                                      *)
(***************************************************************************)
PoolUnchanged ==
  UNCHANGED <<pool_size, max_overflow, engines, session_factories, last_used, connection_ids, lock,
              monitor_thread, monitor_active, mon, handed, createdFor>>

\* connect() lines 176-179: the except SQLAlchemyError block
ConnectFailed(fac) ==
  [fac EXCEPT !.is_connected = FALSE, !.engine = 0, !.session_factory = 0]

\* connect() lines 105-108 on a connected facade
ConnectNoop(t) ==
  /\ UNCHANGED <<rvars, gvars, avars>>
  /\ th[t] = Idle
  /\ ~ConnectProceeds(t)
  /\ last' = Stamp(t, Flag("connect", TRUE))
  /\ UNCHANGED <<th, facade, disposed>>
  /\ PoolUnchanged

\* connect() lines 110-143 fail to resolve the connection string: the
\* ValueError and the DatabaseConnectionError are not SQLAlchemyErrors, so they
\* leave connect() (called directly or by get_session()) as they are.
ConnectUnresolved(t, op) ==
  /\ UNCHANGED <<rvars, gvars, avars>>
  /\ th[t] = Idle
  /\ \/ op = "connect" /\ ConnectProceeds(t)
     \/ op = "get_session" /\ GetSessionConnects(t)
  /\ Resolve(facade[t]) # "ok"
  /\ last' = Stamp(t, Raise(op, Resolve(facade[t])))
  /\ UNCHANGED <<th, facade, disposed>>
  /\ PoolUnchanged

\* connect() lines 158-184 without the pool: create_engine, probe,
\* sessionmaker.  Called directly or by get_session().
ConnectUnpooled(t, op, outcome) ==
  /\ UNCHANGED <<rvars, gvars, avars>>
  /\ th[t] = Idle
  /\ ~facade[t].use_pool
  /\ \/ op = "connect" /\ ConnectProceeds(t)
     \/ op = "get_session" /\ GetSessionConnects(t)
  /\ Resolve(facade[t]) = "ok"
  /\ outcome \in {"ok", "create_sa_error", "create_raw_error",
                  "probe_sa_error", "probe_raw_error"}
  /\ outcome \in {"ok", "probe_sa_error", "probe_raw_error"} => HasFreeEngine
  /\ LET fac == facade[t]
         e == NewEngine
     IN  CASE outcome = "ok" ->
                /\ Apply(t, WithAttempts(ConnectReturned(op, [fac EXCEPT !.engine = e,
                                                            !.session_factory = e,
                                                            !.is_connected = TRUE]), 1))
                /\ disposed' = disposed \ {e}
           [] outcome = "create_sa_error" ->
                /\ Apply(t, WithAttempts(ConnectRaised(op, ConnectFailed(fac), "connect_failed"), 1))
                /\ UNCHANGED disposed
           [] outcome = "create_raw_error" ->
                /\ Apply(t, WithAttempts(ConnectRaised(op, fac, "raw"), 1))
                /\ UNCHANGED disposed
           [] outcome = "probe_sa_error" ->
                /\ Apply(t, WithAttempts(ConnectRaised(op, ConnectFailed([fac EXCEPT !.engine = e]),
                                          "connect_failed"), 1))
                /\ disposed' = disposed \ {e}
           [] outcome = "probe_raw_error" ->
                /\ Apply(t, WithAttempts(ConnectRaised(op, [fac EXCEPT !.engine = e], "raw"), 1))
                /\ disposed' = disposed \ {e}
  /\ PoolUnchanged

\* disconnect() lines 197-199 and 206-208: the three fields are cleared
ReleasedMutant(fac) == [fac EXCEPT !.engine = 0, !.session_factory = 0]
Released(fac) == [fac EXCEPT !.is_connected = FALSE, !.engine = 0, !.session_factory = 0]

\* disconnect() line 194: if self._use_pool and self._pool and self._connection_id
ReleasesToPoolMutant(fac) == FALSE
ReleasesToPool(fac) == fac.use_pool /\ fac.connection_id # NoId

\* disconnect() lines 191-192: if not self._is_connected: return
DisconnectReturnsEarly(fac) == ~fac.is_connected

\* disconnect(); the outcome names the engine reference the call dropped
\* (0: none), the call itself returns None
Disconnect(t) ==
  /\ UNCHANGED <<rvars, gvars, avars>>
  /\ th[t] = Idle
  /\ LET fac == facade[t]
     IN  IF DisconnectReturnsEarly(fac)
           THEN /\ last' = Stamp(t, Value("disconnect", 0))
                /\ UNCHANGED <<facade, disposed>>
         ELSE IF ReleasesToPool(fac)
           THEN /\ facade' = [facade EXCEPT ![t] = Released(fac)]
                /\ last' = Stamp(t, Value("disconnect", fac.engine))
                /\ UNCHANGED disposed
         ELSE /\ disposed' = IF fac.engine # 0 THEN disposed \cup {fac.engine} ELSE disposed
              /\ facade' = [facade EXCEPT ![t] = Released(fac)]
              /\ last' = Stamp(t, Value("disconnect", fac.engine))
  /\ UNCHANGED th
  /\ PoolUnchanged

\* get_session() on a facade that does not call connect()
GetSession(t) ==
  /\ UNCHANGED <<rvars, gvars, avars>>
  /\ th[t] = Idle
  /\ ~GetSessionConnects(t)
  /\ last' = Stamp(t,
               IF facade[t].session_factory = 0
                 THEN Raise("get_session", "no_connection")
                 ELSE Value("get_session", facade[t].session_factory))
  /\ UNCHANGED <<th, facade, disposed>>
  /\ PoolUnchanged

\* is_connected() lines 313-315: except SQLAlchemyError
ProbeFailedMutant(fac) == fac
ProbeFailed(fac) == [fac EXCEPT !.is_connected = FALSE]

\* is_connected(): the flag, then a probe of the engine
IsConnected(t, probe_ok) ==
  /\ UNCHANGED <<rvars, gvars, avars>>
  /\ th[t] = Idle
  /\ LET fac == facade[t]
     IN  IF ~fac.is_connected \/ fac.engine = 0
           THEN /\ last' = Stamp(t, Flag("is_connected", FALSE))
                /\ UNCHANGED facade
         ELSE IF probe_ok
           THEN /\ last' = Stamp(t, Flag("is_connected", TRUE))
                /\ UNCHANGED facade
         ELSE /\ last' = Stamp(t, Flag("is_connected", FALSE))
              /\ facade' = [facade EXCEPT ![t] = ProbeFailed(fac)]
  /\ UNCHANGED <<th, disposed>>
  /\ PoolUnchanged

\* execute_raw_sql(sql, params)
ExecuteRawSql(t, exec_ok) ==
  /\ UNCHANGED <<rvars, gvars, avars>>
  /\ th[t] = Idle
  /\ LET fac == facade[t]
     IN  last' = Stamp(t,
                   IF ~fac.is_connected THEN Raise("execute_raw_sql", "no_connection")
                   ELSE IF fac.session_factory = 0 THEN Raise("execute_raw_sql", "no_connection")
                   ELSE IF exec_ok THEN Value("execute_raw_sql", fac.session_factory)
                   ELSE Raise("execute_raw_sql", "execute_failed"))
  /\ UNCHANGED <<th, facade, disposed>>
  /\ PoolUnchanged

\* What the introspection of get_schema does: inspect(self._engine), which
\* opens a connection, and then the inspector's reflection calls
SchemaOutcomes == {"ok", "inspect_sa_error", "reflect_sa_error"}

\* the error get_schema raises when inspect(self._engine) raises
InspectError == "raw"

\* get_schema(table_name)
GetSchema(t, outcome) ==
  /\ UNCHANGED <<rvars, gvars, avars>>
  /\ th[t] = Idle
  /\ LET fac == facade[t]
     IN  last' = Stamp(t,
                   IF ~fac.is_connected \/ fac.engine = 0
                     THEN Raise("get_schema", "no_connection")
                   ELSE IF outcome = "inspect_sa_error"
                     THEN Raise("get_schema", InspectError)
                   ELSE IF outcome = "reflect_sa_error"
                     THEN Raise("get_schema", "schema_failed")
                   ELSE Value("get_schema", fac.engine))
  /\ UNCHANGED <<th, facade, disposed>>
  /\ PoolUnchanged

(***************************************************************************)
(* Monitoring and disposal                                                 *)
(***************************************************************************)
ClientUnchanged == UNCHANGED <<th, last, facade>>

\* self._monitor_thread.is_alive()
IsAlive(m) == mon[m] # "dead"

\* start_monitoring()
StartMonitoring(t) ==
  /\ UNCHANGED <<rvars, gvars, avars>>
  /\ th[t] = Idle
  /\ IF monitor_thread = None \/ ~IsAlive(monitor_thread)
       THEN \E m \in DOMAIN mon :
              /\ mon[m] = "dead"
              /\ monitor_active' = TRUE
              /\ monitor_thread' = m
              /\ mon' = [mon EXCEPT ![m] = "test"]
       ELSE UNCHANGED <<monitor_active, monitor_thread, mon>>
  /\ last' = Stamp(t, Value("start_monitoring", 0))
  /\ UNCHANGED <<pool_size, max_overflow, engines, session_factories, last_used, connection_ids, lock,
                 disposed, handed, createdFor, th, facade>>

\* stop_monitoring() line 72, then the join of line 74 begins
StopMonitoring(t) ==
  /\ UNCHANGED <<rvars, gvars, avars>>
  /\ th[t] = Idle
  /\ monitor_active' = FALSE
  /\ IF monitor_thread # None
       THEN /\ th' = [th EXCEPT ![t] = [op |-> "stop_monitoring", pc |-> "join", id |-> NoId, att |-> 0]]
            /\ last' = Stamp(t, Pending(th'[t].op))
       ELSE /\ last' = Stamp(t, Value("stop_monitoring", 0))
            /\ UNCHANGED th
  /\ UNCHANGED <<pool_size, max_overflow, engines, session_factories, last_used, connection_ids, lock,
                 monitor_thread, mon, disposed, handed, createdFor,
                 facade>>

\* join(timeout=1.0) returns, the thread having ended or not; line 75
JoinReturns(t) ==
  /\ UNCHANGED <<rvars, gvars, avars>>
  /\ th[t].pc = "join"
  /\ monitor_thread' = None
  /\ th' = [th EXCEPT ![t] = Idle]
  /\ last' = Stamp(t, Value(th[t].op, 0))
  /\ UNCHANGED <<pool_size, max_overflow, engines, session_factories, last_used, connection_ids, lock,
                 monitor_active, mon, disposed, handed, createdFor,
                 facade>>

\* dispose_all(): lines 222-232 under the lock, then stop_monitoring()
DisposeAll(t) ==
  /\ UNCHANGED <<rvars, gvars, avars>>
  /\ th[t] = Idle
  /\ LockFree
  /\ SetPool([e |-> [id \in ConnIds |-> 0],
              sf |-> [id \in ConnIds |-> 0],
              lu |-> [id \in ConnIds |-> -1],
              ids |-> {},
              disp |-> disposed \cup { engines[id] : id \in Pooled(Pool) },
              h |-> [id \in ConnIds |-> {}],
              c |-> [id \in ConnIds |-> {}]])
  /\ monitor_active' = FALSE
  /\ IF monitor_thread # None
       THEN /\ th' = [th EXCEPT ![t] = [op |-> "dispose_all", pc |-> "join", id |-> NoId, att |-> 0]]
            /\ last' = Stamp(t, Pending(th'[t].op))
       ELSE /\ last' = Stamp(t, Value("dispose_all", 0))
            /\ UNCHANGED th
  /\ UNCHANGED <<pool_size, max_overflow, lock, monitor_thread, mon, facade>>

\* _monitor_connections line 79: the condition of the while loop
MonitorLoopGuardMutant == TRUE
MonitorLoopGuard == monitor_active

\* _monitor_connections line 79: while self._monitor_active
MonitorTest(m) ==
  /\ UNCHANGED <<rvars, gvars, avars>>
  /\ mon[m] = "test"
  /\ mon' = [mon EXCEPT ![m] = IF MonitorLoopGuard THEN "check" ELSE "dead"]
  /\ UNCHANGED <<pool_size, max_overflow, engines, session_factories, last_used, connection_ids, lock,
                 monitor_thread, monitor_active, disposed, handed, createdFor>>
  /\ ClientUnchanged

\* _perform_health_check(): under the lock, every engine whose probe fails
\* with an SQLAlchemyError (those of the identities in failing) is removed;
\* the outcome is the number of entries removed
MonitorHealthCheck(m, failing) ==
  /\ UNCHANGED <<rvars, gvars, avars>>
  /\ mon[m] = "check"
  /\ LockFree
  /\ failing \subseteq Pooled(Pool)
  /\ SetPool(remove_all(Pool, failing))
  /\ mon' = [mon EXCEPT ![m] = "recycle"]
  /\ last' = Value("health_check", Cardinality(failing))
  /\ UNCHANGED <<pool_size, max_overflow, lock, monitor_thread, monitor_active, th, facade>>

\* _monitor_connections lines 92-94: a probe of the health check raises an
\* error that is not an SQLAlchemyError; the entries found failing before it
\* (failing) were removed, the entry whose probe raised and those after it
\* are kept, the recycle sweep is skipped and the loop sleeps
MonitorSweepAborts(m, failing) ==
  /\ UNCHANGED <<rvars, gvars, avars>>
  /\ mon[m] = "check"
  /\ LockFree
  /\ failing \subseteq Pooled(Pool)
  /\ failing # Pooled(Pool)
  /\ SetPool(remove_all(Pool, failing))
  /\ mon' = [mon EXCEPT ![m] = "sleep"]
  /\ last' = Raise("health_check", "raw")
  /\ UNCHANGED <<pool_size, max_overflow, lock, monitor_thread, monitor_active, th, facade>>

\* current_time - last_used > self.pool_recycle
ExpiredMutant(P, id) == P.lu[id] # -1
Expired(P, id) == P.lu[id] # -1 /\ P.lu[id] > PoolRecycle

\* _monitor_connections lines 84-89: the recycle sweep under the lock; the
\* outcome is the number of entries removed
MonitorRecycle(m) ==
  /\ UNCHANGED <<rvars, gvars, avars>>
  /\ mon[m] = "recycle"
  /\ LockFree
  /\ SetPool(remove_all(Pool, { id \in ConnIds : Expired(Pool, id) }))
  /\ mon' = [mon EXCEPT ![m] = "sleep"]
  /\ last' = Value("recycle", Cardinality({ id \in ConnIds : Expired(Pool, id) }))
  /\ UNCHANGED <<pool_size, max_overflow, lock, monitor_thread, monitor_active, th, facade>>

\* time.sleep(self.health_check_interval) returns
MonitorWake(m) ==
  /\ UNCHANGED <<rvars, gvars, avars>>
  /\ mon[m] = "sleep"
  /\ mon' = [mon EXCEPT ![m] = "test"]
  /\ UNCHANGED <<pool_size, max_overflow, engines, session_factories, last_used, connection_ids, lock,
                 monitor_thread, monitor_active, disposed, handed, createdFor>>
  /\ ClientUnchanged

\* The clock advances by one tick: every stamp is one tick older.  An age
\* above pool_recycle is kept at pool_recycle + 1 (only "> pool_recycle"
\* is ever asked of it).
Tick ==
  /\ UNCHANGED <<rvars, gvars, avars>>
  /\ \E id \in ConnIds : last_used[id] # -1 /\ last_used[id] <= PoolRecycle
  /\ last_used' = [id \in ConnIds |->
                     IF last_used[id] # -1 /\ last_used[id] <= PoolRecycle
                       THEN last_used[id] + 1 ELSE last_used[id]]
  /\ UNCHANGED <<pool_size, max_overflow, engines, session_factories, connection_ids, lock,
                 monitor_thread, monitor_active, mon, disposed, handed, createdFor>>
  /\ ClientUnchanged

RetryIdle ==
  /\ max_retries = 3
  /\ retry_delay = 1
  /\ exponential_backoff = TRUE
  /\ rpc = "returned"
  /\ attempt = 0
  /\ last_error = NoError
  /\ last_serial = 0
  /\ outcomes = << >>
  /\ sleeps = << >>
  /\ rresult = [kind |-> "none", value |-> None, error |-> NoDomainError]
  /\ call_kwargs = << >>
  /\ logged = NoLog

\* Operations called on the pool itself
PoolCallNext ==
  \/ \E t \in Threads, a \in CallArgs : GetEngineCall(t, "get_engine", a)
  \/ \E t \in Threads, o \in {"ok", "sa_error", "raw_error"} : GetEngineCreate(t, o)
  \/ \E t \in Threads, a \in CallArgs : GetSessionFactoryCall(t, "get_session_factory", a)
  \/ \E t \in Threads, o \in {"ok", "sa_error", "raw_error"} : GetSessionFactoryCreate(t, o)

AdminNext ==
  \/ \E t \in Threads : StartMonitoring(t)
  \/ \E t \in Threads : StopMonitoring(t)
  \/ \E t \in Threads : JoinReturns(t)
  \/ \E t \in Threads : DisposeAll(t)

MonitorNext ==
  \/ \E m \in DOMAIN mon : MonitorTest(m)
  \/ \E m \in DOMAIN mon, F \in SUBSET ConnIds : MonitorHealthCheck(m, F)
  \/ \E m \in DOMAIN mon, F \in SUBSET ConnIds : MonitorSweepAborts(m, F)
  \/ \E m \in DOMAIN mon : MonitorRecycle(m)
  \/ \E m \in DOMAIN mon : MonitorWake(m)

\* Operations called on the facades
FacadeNext ==
  \/ \E t \in Threads : GetEngineCall(t, "connect", FacadeArgs(t))
  \/ \E t \in Callers : GetEngineCall(t, "get_session", FacadeArgs(t))
  \/ \E t \in Threads, op \in FacadeOps : GetSessionFactoryCall(t, op, FacadeArgs(t))
  \/ \E t \in Threads : ConnectNoop(t)
  \/ \E t \in Callers, op \in FacadeOps : ConnectUnresolved(t, op)
  \/ \E t \in Threads,
        o \in {"ok", "create_sa_error", "create_raw_error", "probe_sa_error", "probe_raw_error"} :
        ConnectUnpooled(t, "connect", o)
  \/ \E t \in Callers,
        o \in {"ok", "create_sa_error", "create_raw_error", "probe_sa_error", "probe_raw_error"} :
        ConnectUnpooled(t, "get_session", o)
  \/ \E t \in Threads : Disconnect(t)
  \/ \E t \in Callers : GetSession(t)
  \/ \E t \in Callers, b \in BOOLEAN : IsConnected(t, b)
  \/ \E t \in Callers, b \in BOOLEAN : ExecuteRawSql(t, b)
  \/ \E t \in Callers, o \in SchemaOutcomes : GetSchema(t, o)

(***************************************************************************)
(* SpecPool: client threads call one ConnectionPool directly while its     *)
(* monitor runs; the pool starts as __init__ leaves it.                    *)
(***************************************************************************)
PoolSpecInit ==
  /\ PoolInit
  /\ MonitorInit({"m1"})
  /\ RetryIdle
  /\ \A t \in Threads : facade[t] = NewFacade(TRUE, "string")

PoolSpecNext ==
  \/ PoolCallNext
  \/ AdminNext
  \/ MonitorNext
  \/ Tick

SpecPool == PoolSpecInit /\ [][PoolSpecNext]_vars

(***************************************************************************)
(* get_global_connection_pool(), called by the client threads.             *)
(***************************************************************************)
MaxGlobalCalls == 3

\* a thread calls get_global_connection_pool()
GetGlobalPoolCall(t) ==
  /\ UNCHANGED <<rvars, pvars, avars>>
  /\ gpc[t] = "idle"
  /\ gcalls[t] < MaxGlobalCalls
  /\ gcalls' = [gcalls EXCEPT ![t] = @ + 1]
  /\ gpc' = [gpc EXCEPT ![t] = "acquire"]
  /\ UNCHANGED <<GLOBAL_POOL, POOL_LOCK, constructed, started, returned>>

\* _POOL_LOCK can be taken
PoolLockFreeMutant == TRUE
PoolLockFree == POOL_LOCK = "free"

\* line 32: with _POOL_LOCK
GetGlobalPoolAcquire(t) ==
  /\ UNCHANGED <<rvars, pvars, avars>>
  /\ gpc[t] = "acquire"
  /\ PoolLockFree
  /\ POOL_LOCK' = t
  /\ gpc' = [gpc EXCEPT ![t] = "test"]
  /\ UNCHANGED <<GLOBAL_POOL, gcalls, constructed, started, returned>>

\* line 33: if _GLOBAL_POOL is None
GetGlobalPoolTest(t) ==
  /\ UNCHANGED <<rvars, pvars, avars>>
  /\ gpc[t] = "test"
  /\ gpc' = [gpc EXCEPT ![t] = IF GLOBAL_POOL = NoPool THEN "construct" ELSE "release"]
  /\ UNCHANGED <<GLOBAL_POOL, POOL_LOCK, gcalls, constructed, started, returned>>

\* lines 34-35: _GLOBAL_POOL = ConnectionPool(config), a new object
GetGlobalPoolConstruct(t) ==
  /\ UNCHANGED <<rvars, pvars, avars>>
  /\ gpc[t] = "construct"
  /\ constructed' = constructed + 1
  /\ GLOBAL_POOL' = constructed + 1
  /\ gpc' = [gpc EXCEPT ![t] = "start"]
  /\ UNCHANGED <<POOL_LOCK, gcalls, started, returned>>

\* line 36: _GLOBAL_POOL.start_monitoring()
GetGlobalPoolStart(t) ==
  /\ UNCHANGED <<rvars, pvars, avars>>
  /\ gpc[t] = "start"
  /\ started' = started + 1
  /\ gpc' = [gpc EXCEPT ![t] = "release"]
  /\ UNCHANGED <<GLOBAL_POOL, POOL_LOCK, gcalls, constructed, returned>>

\* the end of the with block: the lock is released
GetGlobalPoolRelease(t) ==
  /\ UNCHANGED <<rvars, pvars, avars>>
  /\ gpc[t] = "release"
  /\ POOL_LOCK' = "free"
  /\ gpc' = [gpc EXCEPT ![t] = "return"]
  /\ UNCHANGED <<GLOBAL_POOL, gcalls, constructed, started, returned>>

\* line 38: return _GLOBAL_POOL, read after the lock was released
GetGlobalPoolReturn(t) ==
  /\ UNCHANGED <<rvars, pvars, avars>>
  /\ gpc[t] = "return"
  /\ returned' = returned \cup {GLOBAL_POOL}
  /\ gpc' = [gpc EXCEPT ![t] = "idle"]
  /\ UNCHANGED <<GLOBAL_POOL, POOL_LOCK, gcalls, constructed, started>>

GlobalSpecInit ==
  /\ PoolInit
  /\ MonitorInit({"m1"})
  /\ RetryIdle
  /\ pool_size = 1
  /\ max_overflow = 0
  /\ \A t \in Threads : facade[t] = NewFacade(TRUE, "string")

GlobalSpecNext ==
  \/ \E t \in Threads : GetGlobalPoolCall(t)
  \/ \E t \in Threads : GetGlobalPoolAcquire(t)
  \/ \E t \in Threads : GetGlobalPoolTest(t)
  \/ \E t \in Threads : GetGlobalPoolConstruct(t)
  \/ \E t \in Threads : GetGlobalPoolStart(t)
  \/ \E t \in Threads : GetGlobalPoolRelease(t)
  \/ \E t \in Threads : GetGlobalPoolReturn(t)

SpecGlobal == GlobalSpecInit /\ [][GlobalSpecNext]_vars

\* C24: get_global_connection_pool() constructs at most one ConnectionPool
\* and calls start_monitoring at most once, however the calls of the threads
\* interleave; once a call has returned, exactly one pool was constructed and
\* started, and every call has returned that same object.
C24_GlobalPoolIsSingleton ==
  /\ constructed <= 1
  /\ started <= 1
  /\ returned # {} => (constructed = 1 /\ started = 1 /\ returned = {GLOBAL_POOL})
  /\ GLOBAL_POOL # NoPool => GLOBAL_POOL = 1

\* Every thread has called get_global_connection_pool(), the first calls
\* overlapping or not, and every call has returned the one pool
C24_Witness ==
  /\ \A t \in Threads : gcalls[t] >= 1 /\ gpc[t] = "idle"
  /\ returned = {1}
  /\ constructed = 1
  /\ started = 1

(***************************************************************************)
(* SpecMon: monitoring of one ConnectionPool is started and stopped by the *)
(* client threads, any number of times, while one of them fetches engines; *)
(* each start_monitoring that finds no live thread creates a new thread.   *)
(***************************************************************************)
MonSpecInit ==
  /\ PoolInit
  /\ MonitorInit(Monitors)
  /\ RetryIdle
  /\ max_overflow = 0
  /\ \A t \in Threads : facade[t] = NewFacade(TRUE, "string")

MonSpecNext ==
  \/ AdminNext
  \/ MonitorNext
  \/ \E a \in CallArgs : GetEngineCall("t1", "get_engine", a)
  \/ \E o \in {"ok", "sa_error", "raw_error"} : GetEngineCreate("t1", o)

SpecMon == MonSpecInit /\ [][MonSpecNext]_vars

\* Scheduling of a monitor thread: it is a thread of its own, so the loop
\* test and the end of a sleep happen once they can, and a sweep that waits
\* for the pool lock gets it, the lock being released again and again: a
\* client that holds it while it creates and probes an engine comes to the
\* end of its with-block.
MonitorFairness ==
  /\ \A m \in Monitors :
       /\ WF_vars(MonitorTest(m))
       /\ WF_vars(MonitorWake(m))
       /\ SF_vars(\E F \in SUBSET ConnIds : MonitorHealthCheck(m, F) \/ MonitorSweepAborts(m, F))
       /\ SF_vars(MonitorRecycle(m))
  /\ \A t \in Threads :
       WF_vars(\E o \in {"ok", "sa_error", "raw_error"} : GetEngineCreate(t, o))

SpecMonLive == MonSpecInit /\ [][MonSpecNext]_vars /\ MonitorFairness

(***************************************************************************)
(* Spec: client threads use their DatabaseConnection facades, pooled ones  *)
(* on the global pool of get_global_connection_pool(), which is built with *)
(* monitoring started; another client fills the pool by get_engine.        *)
(***************************************************************************)
GlobalPoolExists == \E t \in Threads : facade[t].use_pool

Init ==
  /\ PoolInit
  /\ \A t \in Threads : facade[t].use_pool = facade["t1"].use_pool
  /\ \A t \in Threads : facade[t].config = "string" <=> t \notin Callers
  /\ IF GlobalPoolExists THEN GlobalMonitorInit ELSE MonitorInit({"m1"})
  /\ RetryIdle
  /\ max_overflow = 0

\* A client that fills the pool with another identity
OtherArgs == [cs |-> "B", kw |-> KwNone]

Next ==
  \/ FacadeNext
  \/ \E t \in Threads : GlobalPoolExists /\ GetEngineCall(t, "get_engine", OtherArgs)
  \/ \E t \in Threads, o \in {"ok", "sa_error", "raw_error"} : GetEngineCreate(t, o)
  \/ \E t \in Threads, o \in {"ok", "sa_error", "raw_error"} : GetSessionFactoryCreate(t, o)
  \/ MonitorNext

Spec == Init /\ [][Next]_vars

(***************************************************************************)
(* Properties of ConnectionPool (checked under SpecPool).                  *)
(***************************************************************************)
EnginesHeld == Cardinality({ id \in ConnIds : engines[id] # 0 })

PoolIsFull == EnginesHeld >= pool_size + max_overflow

\* C1: whatever get_engine, get_session_factory, the monitor sweeps and
\* dispose_all have done, in any interleaving, the pool never holds more than
\* pool_size + max_overflow engines.
C1_PoolNeverExceedsCapacity == EnginesHeld <= pool_size + max_overflow

\* The pool is exactly at its capacity, overflow included, and a call has
\* just been refused
C1_Witness ==
  /\ max_overflow > 0
  /\ EnginesHeld = pool_size + max_overflow
  /\ last.op = "get_session_factory"
  /\ last.err = "pool_full"

\* C2: when the pool holds pool_size + max_overflow identities, a get_engine
\* call for an identity that is not pooled raises "Connection pool is full"
\* in the same step: it attempts no engine creation and leaves every pool map
\* (and the lock) as it was; a get_engine call for a pooled identity returns
\* the engine pooled for it.
C2_FullPoolRaisesAtOnce ==
  [][\A t \in Threads, a \in CallArgs :
       (PoolIsFull /\ GetEngineCall(t, "get_engine", a)) =>
         IF engines[ConnId(a.cs, a.kw)] = 0
           THEN /\ th'[t] = Idle
                /\ last' = Raise("get_engine", "pool_full")
                /\ UNCHANGED <<engines, session_factories, last_used, connection_ids,
                               disposed, lock>>
           ELSE /\ th'[t] = Idle
                /\ last' = Value("get_engine", engines[ConnId(a.cs, a.kw)])
                /\ engines' = engines]_vars

\* A get_engine call has just been refused by a full pool
C2_Witness ==
  /\ PoolIsFull
  /\ last = Raise("get_engine", "pool_full")

Evicted(id) ==
  /\ engines[id] \in disposed'
  /\ engines'[id] = 0
  /\ session_factories'[id] = 0
  /\ last_used'[id] = -1
  /\ id \notin connection_ids'

\* The entry of identity id is as it was
Kept(id) ==
  /\ engines'[id] = engines[id]
  /\ session_factories'[id] = session_factories[id]
  /\ last_used'[id] = last_used[id]
  /\ (id \in connection_ids') = (id \in connection_ids)
  /\ engines[id] # 0 => engines[id] \notin disposed'

get_stats(P) ==
  [active_connections |-> Cardinality(Pooled(P)),
   pool_size |-> pool_size,
   max_overflow |-> max_overflow,
   connection_ids |-> P.ids,
   last_used |-> { id \in ConnIds : P.lu[id] # -1 }]

\* The maps agree with one another
MapsAgree ==
  /\ { id \in ConnIds : engines[id] # 0 } = connection_ids
  /\ { id \in ConnIds : last_used[id] # -1 } = connection_ids
  /\ { id \in ConnIds : session_factories[id] # 0 } \subseteq connection_ids
  /\ \A id \in ConnIds : session_factories[id] # 0 => session_factories[id] = engines[id]
  /\ get_stats(Pool).active_connections = Cardinality(connection_ids)
  /\ get_stats(Pool).last_used = get_stats(Pool).connection_ids

\* The step adds or removes an entry of a map or stamps an entry as used now
\* (the ageing of the stamps with the clock is no access to the maps)
MapsTouched ==
  /\ <<engines, session_factories, last_used, connection_ids>>' #
       <<engines, session_factories, last_used, connection_ids>>
  /\ ~Tick

\* C25: the pool maps change only in a step of the thread that holds the
\* pool lock, or that takes it free and releases it within the step; and
\* whenever the lock is free the maps agree: engines, last-used stamps and
\* connection ids have the same identities, the identities with a session
\* factory are among them, each session factory is bound to the engine stored
\* for its identity, and get_stats would report as many active connections
\* as there are connection ids.
C25_MapsGuardedAndConsistent ==
  /\ [](lock = "free" => MapsAgree)
  /\ [][MapsTouched =>
          \/ lock = "free"
          \/ lock \in Threads /\ th'[lock] # th[lock]]_vars

\* With the lock free the pool holds an entry with a session factory bound
\* to its engine and another entry that has an engine only
C25_Witness ==
  /\ lock = "free"
  /\ \E id \in ConnIds : session_factories[id] # 0 /\ session_factories[id] = engines[id]
  /\ \E id \in ConnIds : session_factories[id] = 0 /\ engines[id] # 0

\* C26: two sets of get_engine arguments with the same connection string
\* and different extra arguments have different identities, and when both
\* are pooled they are two entries with two distinct engines.
C26_ExtrasSeparateIdentities ==
  \A a, b \in CallArgs :
    (a.cs = b.cs /\ a.kw # b.kw) =>
      /\ ConnId(a.cs, a.kw) # ConnId(b.cs, b.kw)
      /\ (engines[ConnId(a.cs, a.kw)] # 0 /\ engines[ConnId(b.cs, b.kw)] # 0) =>
           /\ engines[ConnId(a.cs, a.kw)] # engines[ConnId(b.cs, b.kw)]
           /\ EnginesHeld >= 2

\* get_engine has been called with one connection string and two different
\* extras: both engines are pooled, the second one just created
C26_Witness ==
  /\ engines[ConnId("A", KwNone)] # 0
  /\ engines[ConnId("A", KwArgs)] # 0
  /\ last.op = "get_engine"
  /\ last.kind = "value"
  /\ last.att = 1
  /\ last.val \in {engines[ConnId("A", KwNone)], engines[ConnId("A", KwArgs)]}

\* The monitor threads whose loop has not ended
RunningMonitors == { m \in DOMAIN mon : IsAlive(m) }

\* dispose_all() has returned
DisposeAllReturned == last.op = "dispose_all" /\ last.kind = "value"

\* C23: when dispose_all() releases the pool lock every map is empty and
\* every engine that was pooled has been disposed; and once dispose_all()
\* has returned, the monitor loops all end, unless start_monitoring raises
\* the monitoring flag again; a loop that has ended sweeps no more, and only
\* a start_monitoring that raises the flag starts a loop.
C23_DisposeAllStopsPool ==
  /\ [][\A t \in Threads :
          DisposeAll(t) =>
            /\ \A id \in ConnIds :
                 /\ engines'[id] = 0
                 /\ session_factories'[id] = 0
                 /\ last_used'[id] = -1
                 /\ engines[id] # 0 => engines[id] \in disposed'
            /\ connection_ids' = {}
            /\ ~monitor_active']_vars
  /\ [][\A m \in DOMAIN mon :
          /\ (mon[m] = "dead" /\ mon'[m] # "dead") => (monitor_active' /\ monitor_thread' = m)
          /\ \A F \in SUBSET ConnIds :
               (MonitorHealthCheck(m, F) \/ MonitorSweepAborts(m, F) \/ MonitorRecycle(m)) =>
                 m \in RunningMonitors]_vars
  /\ DisposeAllReturned ~> (RunningMonitors = {} \/ monitor_active)

\* dispose_all() has returned, having disposed what was pooled, while a
\* monitor loop it asked to stop has not ended yet
C23_Witness ==
  /\ DisposeAllReturned
  /\ Pooled(Pool) = {}
  /\ disposed # {}
  /\ ~monitor_active
  /\ RunningMonitors # {}

(***************************************************************************)
(* Properties of DatabaseConnection (checked under Spec).                  *)
(***************************************************************************)
ConnectFailures == {"create_failed", "connect_failed"}

\* C9: a connect() that raises because the database cannot be reached has
\* made max_retries + 1 connection attempts, the first one and max_retries
\* retries.
C9_ConnectRetries ==
  (last.op = "connect" /\ last.kind = "raise" /\ last.err \in ConnectFailures) =>
    last.att = max_retries + 1

\* C10: a facade whose connected flag is true has an engine and a session
\* factory, whatever calls were made on it and however they ended.
C10_ConnectedHasEngine ==
  \A t \in Threads :
    facade[t].is_connected => (facade[t].engine # 0 /\ facade[t].session_factory # 0)

\* The facade is connected after a call on it has raised
C10_Witness ==
  /\ facade["t1"].is_connected
  /\ last.kind = "raise"
  /\ last.op \in {"execute_raw_sql", "get_schema"}

\* The step begins a connect() called on the facade of thread t
ConnectBegins(t) ==
  \/ ConnectNoop(t)
  \/ ConnectUnresolved(t, "connect")
  \/ GetEngineCall(t, "connect", FacadeArgs(t))
  \/ \E o \in {"ok", "create_sa_error", "create_raw_error", "probe_sa_error", "probe_raw_error"} :
        ConnectUnpooled(t, "connect", o)

\* The step begins a get_session() called on the facade of thread t
GetSessionBegins(t) ==
  \/ GetSession(t)
  \/ ConnectUnresolved(t, "get_session")
  \/ GetEngineCall(t, "get_session", FacadeArgs(t))
  \/ \E o \in {"ok", "create_sa_error", "create_raw_error", "probe_sa_error", "probe_raw_error"} :
        ConnectUnpooled(t, "get_session", o)

\* The step ends a connect() called on the facade of thread t
ConnectEnds(t) ==
  /\ ConnectBegins(t) \/ (th[t].op = "connect" /\ th[t].pc # "idle")
  /\ th'[t] = Idle
  /\ last'.op = "connect"

\* The step ends a get_session() called on the facade of thread t
GetSessionEnds(t) ==
  /\ GetSessionBegins(t) \/ (th[t].op = "get_session" /\ th[t].pc # "idle")
  /\ th'[t] = Idle
  /\ last'.op = "get_session"

PoolMapsUnchanged ==
  UNCHANGED <<engines, session_factories, last_used, connection_ids, lock, handed, createdFor>>

\* The errors connect() can end with, and those of them that are
\* DataAnalyticsPlatformErrors
ConnectErrors ==
  {"config_error", "bad_credentials", "pool_full", "create_failed", "connect_failed", "raw"}
ClassifiedErrors == {"bad_credentials", "pool_full", "create_failed", "connect_failed"}

\* C11: connect() on a facade whose connected flag is true returns True and
\* changes nothing: the connection string is not resolved again, the pool is
\* not called, no engine is created or probed, and the facade keeps its
\* engine, session factory and connection id.
C11_ConnectedConnectIsNoop ==
  [][\A t \in Threads :
       (facade[t].is_connected /\ ConnectBegins(t)) =>
         /\ last' = Flag("connect", TRUE)
         /\ UNCHANGED <<facade, th, disposed>>
         /\ PoolMapsUnchanged]_vars

\* An unpooled facade is connected and a connect() has just returned True
\* without creating an engine
C11_Witness ==
  /\ \A t \in Threads : ~facade[t].use_pool
  /\ \E t \in Threads : facade[t].is_connected
  /\ last = Flag("connect", TRUE)

\* C12: disconnect() on a connected pooled facade disposes nothing and
\* leaves the pool maps and the other facades as they were; disconnect() on
\* a connected unpooled facade disposes its engine, which had not been
\* disposed before.
C12_DisconnectKeepsSharedEngine ==
  [][\A t \in Threads :
       (facade[t].is_connected /\ Disconnect(t)) =>
         IF facade[t].use_pool
           THEN /\ disposed' = disposed
                /\ PoolMapsUnchanged
                /\ \A u \in Threads \ {t} : facade'[u] = facade[u]
           ELSE /\ facade[t].engine \notin disposed
                /\ disposed' = disposed \cup {facade[t].engine}]_vars

\* A pooled facade has just dropped the engine that another connected facade
\* still shares and that the pool still holds undisposed
C12_Witness ==
  /\ last.op = "disconnect"
  /\ last.val # 0
  /\ last.val \notin disposed
  /\ \E u \in Threads :
       /\ facade[u].use_pool
       /\ facade[u].is_connected
       /\ facade[u].engine = last.val
       /\ engines[ConnId(FacadeArgs(u).cs, FacadeArgs(u).kw)] = last.val

\* C13: when disconnect() returns, the facade is not connected, holds no
\* engine and no session factory, and the engine an unpooled facade held has
\* been disposed.
C13_DisconnectClearsFacade ==
  [][\A t \in Threads :
       Disconnect(t) =>
         /\ ~facade'[t].is_connected
         /\ facade'[t].engine = 0
         /\ facade'[t].session_factory = 0
         /\ (~facade[t].use_pool /\ facade[t].engine # 0) => facade[t].engine \in disposed']_vars

\* C14: a get_session() called on a facade that is not connected ends
\* either by returning a session of the facade's session factory, the facade
\* now connected, or by raising the error its connect() ended with.
C14_GetSessionAutoConnects ==
  [][\A t \in Threads :
       (~facade[t].is_connected /\ GetSessionEnds(t)) =>
         \/ /\ last'.kind = "value"
            /\ facade'[t].is_connected
            /\ facade'[t].session_factory # 0
            /\ last'.val = facade'[t].session_factory
         \/ /\ last'.kind = "raise"
            /\ last'.err \in ConnectErrors
            /\ ~facade'[t].is_connected]_vars

\* get_session() has created an engine and returned a session of the now
\* connected facade
C14_Witness ==
  /\ last.op = "get_session"
  /\ last.kind = "value"
  /\ last.att >= 1
  /\ \E t \in Callers : facade[t].is_connected /\ facade[t].session_factory = last.val

\* C15: execute_raw_sql() called on a facade that is not connected connects
\* it and executes the statement.
C15_ExecuteAutoConnects ==
  [][\A t \in Threads :
       (~facade[t].is_connected /\ ExecuteRawSql(t, TRUE)) =>
         (last'.kind = "value" /\ facade'[t].is_connected)]_vars

C17_FailedConnectClearsFacade ==
  [][\A t \in Threads :
       (ConnectEnds(t) /\ last'.kind = "raise") =>
         /\ ~facade'[t].is_connected
         /\ facade'[t].engine = 0
         /\ facade'[t].session_factory = 0]_vars

\* C18: an error raised by connect() is a DataAnalyticsPlatformError, and a
\* configuration failure is raised before any engine creation is attempted.
C18_ConnectErrorsClassified ==
  (last.op = "connect" /\ last.kind = "raise") =>
    /\ last.err \in ClassifiedErrors
    /\ last.err \in {"config_error", "bad_credentials"} => last.att = 0

\* C30 (as claimed): get_schema() on a facade that is not connected raises
\* DatabaseConnectionError, connects nothing and leaves the facade and the
\* pool as they were; on a connected facade every failure of the
\* introspection is raised as DatabaseConnectionError.
C30_GetSchemaErrors ==
  [][\A t \in Callers, o \in SchemaOutcomes :
       GetSchema(t, o) =>
         /\ ~facade[t].is_connected =>
              /\ last' = Raise("get_schema", "no_connection")
              /\ facade' = facade
              /\ Pool' = Pool
         /\ (facade[t].is_connected /\ o # "ok") =>
              /\ last'.kind = "raise"
              /\ last'.err \in {"no_connection", "schema_failed"}]_vars

\* The identities under which the pool stores engine e
StoredUnder(e) == {id \in ConnIds : engines[id] = e}

\* C34 (as claimed): the engine of every connected pooled facade is stored
\* in the pool and has not been disposed, whatever monitor sweeps and
\* dispose_all calls were interleaved with the calls on the facade.
C34_HeldEngineNeverDisposed ==
  \A t \in Threads :
    (facade[t].is_connected /\ facade[t].use_pool) =>
      /\ facade[t].engine \notin disposed
      /\ StoredUnder(facade[t].engine) # {}

\* C35 (as claimed): when a pooled connect() returns True the session
\* factory of the facade is bound to the engine the facade holds, whatever
\* was interleaved between its get_engine and its get_session_factory.
C35_FactoryBoundToHeldEngine ==
  [][\A t \in Threads :
       (ConnectEnds(t) /\ facade'[t].use_pool /\ last'.op = "connect" /\ last'.kind = "true") =>
         /\ facade'[t].is_connected
         /\ facade'[t].session_factory = facade'[t].engine]_vars

\* C37 (as claimed): while a pooled facade is connected and the pool stores
\* its engine, the connection id the facade reports is the identity under
\* which the pool stores that engine, one of the ids get_stats lists.
C37_FacadeIdIsPoolKey ==
  \A t \in Threads :
    (facade[t].is_connected /\ facade[t].use_pool /\ StoredUnder(facade[t].engine) # {}) =>
      /\ facade[t].connection_id \in StoredUnder(facade[t].engine)
      /\ facade[t].connection_id \in get_stats(Pool).connection_ids

\* C38 (as claimed): a get_engine miss whose creation or probe fails raises
\* DatabaseConnectionError and leaves every pool map as it was, so that the
\* next get_engine for the identity is a miss that creates again.
C38_FailedCreationLeavesPool ==
  [][\A t \in Threads, o \in {"sa_error", "raw_error"} :
       (th[t].op = "get_engine" /\ GetEngineCreate(t, o)) =>
         /\ last'.op = "get_engine" /\ last'.kind = "raise"
         /\ last'.err = "create_failed"
         /\ engines' = engines
         /\ session_factories' = session_factories
         /\ last_used' = last_used
         /\ connection_ids' = connection_ids
         /\ get_engine_lookup(Pool', th[t].id).res = "create"]_vars

\* C19: at most one monitor loop of the pool is running at any time,
\* whatever start_monitoring and stop_monitoring calls were made, a
\* start_monitoring after a stop_monitoring whose join timed out included.
C19_OneMonitorLoop == Cardinality(RunningMonitors) <= 1

\* C20: no thread holds the pool lock while it creates an engine or probes
\* one: a get_engine or get_session_factory call that is at its
\* create_engine and probe does not own the lock.
C20_NoLockWhileCreating ==
  \A t \in Threads : th[t].pc \in {"ge_create", "gsf_create"} => lock # t

(***************************************************************************)
(* Properties of execute_with_retry (checked under SpecRetry).             *)
(***************************************************************************)
Calls == Len(outcomes)

\* every invocation so far failed with an OperationalError
AllFailedTransient ==
  \A i \in 1 .. Calls : outcomes[i].cls = "OperationalError"

IsDomainError(x) == x.cls \in {"DatabaseConnectionError", "QueryExecutionError"}

\* C4: an operation that fails with a transient error on every invocation is
\* invoked exactly max_retries + 1 times (max_retries >= 0), each failure but
\* the last is followed by one sleep (max_retries sleeps in all), and then the
\* classified error is raised.
C4_TransientExhaustsRetries ==
  (max_retries >= 0 /\ AllFailedTransient) =>
     /\ rpc = "loop" => (Calls <= max_retries /\ Len(sleeps) = Calls)
     /\ rpc \in {"giveup", "raised"} =>
          (Calls = max_retries + 1 /\ Len(sleeps) = max_retries)
     /\ rpc = "raised" => (rresult.kind = "raise" /\ IsDomainError(rresult.error))
     /\ rpc # "returned"

C4_Witness ==
  /\ rpc = "raised" /\ max_retries = MaxRetriesBound /\ AllFailedTransient
  /\ Calls = MaxRetriesBound + 1 /\ Len(sleeps) = MaxRetriesBound

\* C5: an operation that fails with a transient error N times (0 <= N <=
\* max_retries) and then succeeds makes execute_with_retry return the success
\* value after exactly N + 1 invocations and N sleeps, raising nothing.
C5_SucceedsAfterTransientFailures ==
  /\ \* after N <= max_retries transient failures the operation is invoked again
     (AllFailedTransient /\ Calls <= max_retries) =>
        (rpc = "loop" /\ Len(sleeps) = Calls)
  /\ \* the invocation that succeeds ends the call with its value
     (Calls > 0 /\ outcomes[Calls] = Returned) =>
        /\ rpc = "returned"
        /\ rresult.kind = "return" /\ rresult.value = SuccessValue
        /\ Calls - 1 <= max_retries
        /\ Len(sleeps) = Calls - 1
        /\ \A i \in 1 .. Calls - 1 : outcomes[i].cls = "OperationalError"
  /\ rpc = "returned" => (Calls > 0 /\ outcomes[Calls] = Returned)

C5_Witness ==
  /\ rpc = "returned" /\ Calls = 3 /\ Len(sleeps) = 2
  /\ rresult.value = SuccessValue /\ max_retries = 3

\* C6: a failure with an error that is not an OperationalError ends the call:
\* it is the last invocation, no sleep follows it, and the classified error
\* is raised, whatever max_retries is; as a first failure it is the only
\* invocation and there is no sleep at all.
C6_NonTransientNeverRetried ==
  \A i \in 1 .. Calls :
     outcomes[i].cls \notin {"OperationalError", "ok"} =>
        /\ i = Calls
        /\ Len(sleeps) = i - 1
        /\ rpc \in {"giveup", "raised"}
        /\ rpc = "raised" =>
             /\ rresult.kind = "raise" /\ IsDomainError(rresult.error)
             /\ rresult.error.cause = outcomes[i]

C6_Witness ==
  /\ rpc = "raised" /\ Calls = 1 /\ sleeps = << >>
  /\ max_retries = MaxRetriesBound
  /\ outcomes[1].cls = "IntegrityError"

\* C7 (as claimed): the operation is re-invoked only after a failure that
\* handle_error classifies as a DatabaseConnectionError, and a call that
\* raises a QueryExecutionError has invoked the operation once.
C7_RetryAgreesWithClassification ==
  /\ \A i \in 1 .. Calls - 1 :
        handle_error(outcomes[i], i).cls = "DatabaseConnectionError"
  /\ (rpc = "raised" /\ rresult.error.cls = "QueryExecutionError") => Calls = 1

\* C8: the sleep before the k-th retry is retry_delay * 2^(k-1) with
\* exponential backoff (the first is retry_delay, each next one doubles, so
\* they strictly increase when retry_delay > 0) and retry_delay without.
C8_BackoffDelays ==
  /\ Len(sleeps) <= (IF max_retries > 0 THEN max_retries ELSE 0)
  /\ exponential_backoff =>
        /\ Len(sleeps) >= 1 => sleeps[1] = retry_delay
        /\ \A k \in 1 .. Len(sleeps) - 1 :
              /\ sleeps[k + 1] = 2 * sleeps[k]
              /\ retry_delay > 0 => sleeps[k + 1] > sleeps[k]
  /\ ~exponential_backoff =>
        \A k \in 1 .. Len(sleeps) : sleeps[k] = retry_delay

C8_Witness ==
  /\ exponential_backoff /\ retry_delay = 2
  /\ Len(sleeps) = 3 /\ sleeps[3] = 8

\* The classes of error the taxonomy names, told by class and message text.
FitsTransientClass(e) ==
  e.cls = "OperationalError" /\ ({"connection", "timeout"} \cap e.words) # {}

FitsIntegrityClass(e) ==
  e.cls = "IntegrityError"
  /\ ({"unique constraint", "foreign key constraint"} \cap e.words) # {}

FitsQueryClass(e) == e.cls = "ProgrammingError"

FitsNoClass(e) ==
  ~FitsTransientClass(e) /\ ~FitsIntegrityClass(e) /\ ~FitsQueryClass(e)

\* C27 (as claimed): handle_error turns every error into one domain error: a
\* connection or timeout driver error into a DatabaseConnectionError, a
\* unique or foreign key violation into a QueryExecutionError naming the
\* constraint, a syntax error into a QueryExecutionError, and every error
\* of none of these classes into a DatabaseConnectionError.
C27_HandleErrorTaxonomy ==
  rpc = "raised" =>
    LET e == last_error
        x == rresult.error
    IN  /\ rresult.kind = "raise" /\ IsDomainError(x)
        /\ FitsTransientClass(e) => x.cls = "DatabaseConnectionError"
        /\ FitsIntegrityClass(e) =>
             /\ x.cls = "QueryExecutionError"
             /\ x.hint \in {"Unique constraint violation",
                            "Foreign key constraint violation"}
             /\ ("unique constraint" \in e.words) =
                  (x.hint = "Unique constraint violation")
        /\ FitsQueryClass(e) => x.cls = "QueryExecutionError"
        /\ FitsNoClass(e) => x.cls = "DatabaseConnectionError"

\* C28 (as claimed): the error execute_with_retry raises when it gives up is
\* built from the failure of the last invocation and has an attribute
\* holding the number of invocations made.
C28_RaisedErrorCarriesAttempts ==
  rpc = "raised" =>
    /\ rresult.kind = "raise"
    /\ Calls > 0 => (rresult.error.cause = outcomes[Calls]
                     /\ rresult.error.serial = Calls)
    /\ "attempts" \in DOMAIN rresult.error
    /\ rresult.error.attempts = Calls

\* C36 (as claimed): when the operation raises an error that is already a
\* domain error, a QueryExecutionError or a DatabaseConnectionError, the
\* error execute_with_retry raises is of the same class.
C36_DomainErrorKeepsClass ==
  (rpc = "raised" /\ IsDomainError(last_error)) =>
    /\ rresult.kind = "raise"
    /\ rresult.error.cls = last_error.cls

\* The keys of a logged mapping under which no value may appear
SensitiveKeys(mapping) == {k \in DOMAIN mapping : Sensitive(k)}

\* C29 (as claimed): the context of a log record holds no value that was
\* supplied under a key whose name contains password, token, key or secret,
\* neither from the context handed to handle_error nor from the keyword
\* arguments execute_with_retry invoked the operation with.
C29_LoggedContextHasNoSecrets ==
  logged.written =>
    /\ SensitiveKeys(logged.context) = {}
    /\ K_kwargs \in DOMAIN logged.context =>
         SensitiveKeys(logged.context[K_kwargs]) = {}

(***************************************************************************)
(* The specification of execute_with_retry alone: the pool stays as built. *)
(***************************************************************************)
RetrySpecInit ==
  /\ RetryInit
  /\ PoolInit
  /\ MonitorInit({"m1"})
  /\ pool_size = 1
  /\ max_overflow = 0
  /\ \A t \in Threads : facade[t] = NewFacade(TRUE, "string")

RetrySpecNext == RetryNext

SpecRetry == RetrySpecInit /\ [][RetrySpecNext]_vars

(***************************************************************************)
(* The error handler with both of its entry points: execute_with_retry and *)
(* handle_error called directly with a context.                            *)
(***************************************************************************)
LogSpecInit ==
  /\ RetrySpecInit
  /\ max_retries <= 1
  /\ retry_delay = 0

LogSpecNext ==
  \/ RetryLoopExit
  \/ RetryCallReturns
  \/ \E e \in Errors : RetryCallRaises(e)
  \/ RetryGiveUp
  \/ \E e \in Errors, context \in ContextChoices : HandleErrorCall(e, context)

SpecLog == LogSpecInit /\ [][LogSpecNext]_vars

(***************************************************************************)
(* Properties of AuthenticationManager and DatabaseConfig.                 *)
(***************************************************************************)
\* The fields a descriptor of each supported auth_type must hold
RequiredFields(auth_type) ==
  IF auth_type \in {BASIC_AUTH, ENV_AUTH, KEYRING_AUTH} THEN {"username", "password"}
  ELSE IF auth_type = TOKEN_AUTH THEN {"token"}
  ELSE IF auth_type = IAM_AUTH THEN {"role_arn", "region"}
  ELSE {"ssl_cert"}

SupportedAuthTypes == {BASIC_AUTH, ENV_AUTH, KEYRING_AUTH, SSL_AUTH, IAM_AUTH, TOKEN_AUTH}

\* C31 (as claimed): get_auth_params raises for a descriptor without
\* auth_type, with an unsupported auth_type or without a required field, and
\* otherwise returns the parameters of the variant: username and password
\* (basic, environment, keyring), the token as password (token), role ARN
\* and region (iam), a TLS block holding the certificate path (ssl).
C31_AuthParamsShape ==
  aresult.op = "get_auth_params" =>
    LET d == aresult.arg
        r == aresult.out
        complete == /\ "auth_type" \in DOMAIN d
                    /\ d["auth_type"] \in SupportedAuthTypes
                    /\ RequiredFields(d["auth_type"]) \subseteq DOMAIN d
    IN  /\ ~complete => (r.kind = "raise" /\ r.err = "DatabaseConnectionError")
        /\ complete =>
             /\ r.kind = "value"
             /\ d["auth_type"] \in {BASIC_AUTH, ENV_AUTH, KEYRING_AUTH} =>
                  r.val = [username |-> d["username"], password |-> d["password"]]
             /\ d["auth_type"] = TOKEN_AUTH => r.val = [password |-> d["token"]]
             /\ d["auth_type"] = IAM_AUTH =>
                  r.val = [aws_role_arn |-> d["role_arn"], aws_region |-> d["region"]]
             /\ d["auth_type"] = SSL_AUTH =>
                  /\ "connect_args" \in DOMAIN r.val
                  /\ "cert" \in DOMAIN r.val["connect_args"]["ssl"]
                  /\ r.val["connect_args"]["ssl"]["cert"] = d["ssl_cert"]

\* The key that opens what an encrypt_credentials call returned
KeyOf(x) == IF x.key = NoKey THEN encryption_key ELSE x.key

Occurrences(c, s) ==
  Cardinality({i \in 1 .. Len(s) - Len(c) + 1 : SubSeq(s, i, i + Len(c) - 1) = c})

NetworkedTypes == {POSTGRES, MYSQL, MSSQL, ORACLE}

\* C33: for a networked type with user, password, host and database given
\* get_connection_string returns a string that starts with the scheme of the
\* type and holds user, password, host, port and database once each, the
\* port being 5432, 3306, 1433 or 1521 when none is given; for sqlite it
\* returns sqlite:///<database> whatever the other arguments are; with a
\* component missing, and for any other type, it raises.
C33_ConnectionStringShape ==
  aresult.op = "get_connection_string" =>
    LET a == aresult.arg
        r == aresult.out
        given == \A v \in {a.username, a.password, a.host, a.database} : v \notin {None, ""}
        scheme == CASE a.db_type = POSTGRES -> "postgresql://"
                    [] a.db_type = MYSQL -> "mysql+pymysql://"
                    [] a.db_type = MSSQL -> "mssql+pyodbc://"
                    [] a.db_type = ORACLE -> "oracle+cx_oracle://"
                    [] OTHER -> "sqlite:///"
        port == IF a.port # 0 THEN a.port
                ELSE CASE a.db_type = POSTGRES -> 5432
                       [] a.db_type = MYSQL -> 3306
                       [] a.db_type = MSSQL -> 1433
                       [] OTHER -> 1521
    IN  /\ a.db_type = SQLITE => r = AuthValue(<<"sqlite:///", a.database>>)
        /\ (a.db_type \in NetworkedTypes /\ given) =>
             /\ r.kind = "value"
             /\ Head(r.val) = scheme
             /\ \A v \in {a.username, a.password, a.host, a.database} :
                  Occurrences(<<v>>, r.val) = 1
             /\ Occurrences(Decimal(port), r.val) = 1
        /\ (a.db_type \in NetworkedTypes /\ ~given) => r.kind = "raise"
        /\ a.db_type \notin NetworkedTypes \cup {SQLITE} => r.kind = "raise"

\* A MySQL string built without a port
C33_Witness ==
  /\ aresult.op = "get_connection_string"
  /\ aresult.arg.db_type = MYSQL /\ aresult.arg.port = 0
  /\ aresult.out = AuthValue(<<"mysql+pymysql://", "alice", ":", "pw", "@", "dbhost", ":",
                               "3", "3", "0", "6", "/", "analytics">>)

(***************************************************************************)
(* get_auth_params applied to every descriptor.                            *)
(***************************************************************************)
\* The pool and the handler stay as built
QuiescentInit == GlobalSpecInit

AuthParamsSpecInit == QuiescentInit

AuthParamsSpecNext == \E d \in Descriptors : GetAuthParams(d)

SpecAuthParams == AuthParamsSpecInit /\ [][AuthParamsSpecNext]_vars

(***************************************************************************)
(* encrypt_credentials and decrypt_credentials of one manager.             *)
(***************************************************************************)
CryptoSpecInit == QuiescentInit

CryptoSpecNext ==
  \/ \E d \in CredentialChoices, key \in Keys \cup {NoKey}, fresh \in Keys :
        EncryptCredentials(d, key, fresh)
  \/ \E x \in blobs, key \in Keys : DecryptCredentials(x.blob, key)

SpecCrypto == CryptoSpecInit /\ [][CryptoSpecNext]_vars

(***************************************************************************)
(* get_connection_string applied to every argument tuple.                  *)
(***************************************************************************)
ConfigSpecInit == QuiescentInit

ConfigSpecNext == \E a \in ConnectionArguments : GetConnectionString(a)

SpecConfig == ConfigSpecInit /\ [][ConfigSpecNext]_vars

====
